---- MODULE Spec2Model ----
(***************************************************************************)
(* GitGood: the virtual repository (gitgood/core/repository.py), the       *)
(* simulated hosting service (ghflow/core/github_api.py), the command      *)
(* executor (ghflow/parser/executor.py) and the lesson engine's attempt    *)
(* state (ghflow/lessons/engine.py), as a state machine.                   *)
(*                                                                         *)
(* Every operation of the code is a pure operator from a RepositoryState   *)
(* record (and its arguments) to the state it leaves and the CommandResult *)
(* it returns; an action applies one operation to the current state.       *)
(* Python strings built with f-strings are tuples <<template, args...>>.   *)
(***************************************************************************)
EXTENDS Integers, Sequences, FiniteSets, TLC

VARIABLES
    state,          \* VirtualRepository.state : RepositoryState
    result,         \* the CommandResult of the last operation, and its name
    engine,         \* LessonEngine: current_lesson, current_step_index, attempt_count, completed_lessons
    steps           \* number of calls the session may still make

vars == <<state, result, engine, steps>>

----------------------------------------------------------------------------
(* Bounds of the model *)

\* calls of one session on the repository and the hosting service
MaxSteps == 4
\* calls of one session on pull requests and their reviews
MaxReviewSteps == 5
\* calls of one session on the staging area and the lesson engine
MaxStageSteps == 5
\* calls of one session on the lesson engine alone
MaxLessonSteps == 6
\* calls of one session that imports snapshots
MaxImportSteps == 4
\* calls of one session that also passes parsed commands to the executor
MaxCommands == 3
MaxHostSteps == 4

----------------------------------------------------------------------------
(* Values *)

\* 7-character ids, enough of them for every commit a session creates
ShaPool == <<"a1b2c3d", "e4f5g6h", "i7j8k9l", "m0n1o2p", "q3r4s5t", "u6v7w8x", "y9z0a1b",
             "c2d3e4f", "g5h6i7j", "k8l9m0n">>

None == "<None>"
NoUpstream == <<>>

BRANCH_NAMES == {"main", "feature"}
REMOTES == {"origin"}
FILES == {"a.txt", "b.txt"}
MESSAGES == {"m"}
REVIEWERS == {"alice", "bob"}
REVIEW_STATUSES == {"approved", "comment", "request_changes"}

\* Python truthiness of an Optional[str]
Truthy(v) == v # None /\ v # ""

\* dict[k] = v
Put(f, k, v) == [x \in (DOMAIN f) \cup {k} |-> IF x = k THEN v ELSE f[x]]
\* del dict[k]
Del(f, k) == [x \in (DOMAIN f) \ {k} |-> f[x]]

\* list.index / `in` on a list
InSeq(x, s) == \E i \in 1..Len(s) : s[i] = x
FirstIndex(x, s) == CHOOSE i \in 1..Len(s) : s[i] = x /\ \A j \in 1..(i-1) : s[j] # x
\* list.pop(i) / list.remove(x)
PopAt(s, i) == [j \in 1..(Len(s)-1) |-> IF j < i THEN s[j] ELSE s[j+1]]
RemoveFirst(x, s) == PopAt(s, FirstIndex(x, s))

Commit(message, parent_sha, files_changed) ==
    [message |-> message, parent_sha |-> parent_sha, files_changed |-> files_changed]

Branch(commit_sha, upstream) == [commit_sha |-> commit_sha, upstream |-> upstream]

StagedChange(filename, change_type) == [filename |-> filename, change_type |-> change_type]

PullRequest(number, title, body, source_branch, target_branch) ==
    [number |-> number, title |-> title, body |-> body, source_branch |-> source_branch,
     target_branch |-> target_branch, status |-> "open", reviews |-> <<>>,
     approved |-> FALSE]

\* CommandResult(success, message, output, hints) paired with the state left behind
Ok(st, output) ==
    [st |-> st, res |-> [success |-> TRUE, message |-> <<>>, output |-> output, hints |-> <<>>]]
OkMsg(st, message) ==
    [st |-> st, res |-> [success |-> TRUE, message |-> message, output |-> <<>>, hints |-> <<>>]]
Fail(st, message, hints) ==
    [st |-> st, res |-> [success |-> FALSE, message |-> message, output |-> <<>>, hints |-> hints]]

\* RepositoryState() followed by _initialize_repo, with the id _generate_sha drew
InitialState(sha) ==
    [commits |-> (sha :> Commit(<<"Initial commit">>, None, <<"README.md">>)),
     branches |-> ("main" :> Branch(sha, NoUpstream)),
     remote_branches |-> <<>>,
     head |-> "main",
     staged_changes |-> <<>>,
     working_changes |-> <<>>,
     pull_requests |-> <<>>,
     next_pr_number |-> 1,
     remote_url |-> "https://github.com/learner/my-project.git"]

----------------------------------------------------------------------------
(* VirtualRepository *)

\* _generate_sha draws 7 random characters and checks nothing: the id is one
\* already in the commit map, or a new one.  Ids are compared and never
\* inspected, so every new id behaves like the first unused id of the pool.
GenerateSha(st) ==
    DOMAIN st.commits \cup {ShaPool[Cardinality(DOMAIN st.commits) + 1]}

\* create_branch without its test of start_point
create_branch_any_start(st, name, start_point) ==
    IF name \in DOMAIN st.branches
    THEN Fail(st, <<"fatal: a branch named already exists", name>>, <<>>)
    ELSE LET base_sha ==
                 IF Truthy(start_point)
                 THEN IF start_point \in DOMAIN st.branches
                      THEN st.branches[start_point].commit_sha
                      ELSE start_point
                 ELSE st.branches[st.head].commit_sha
         IN  OkMsg([st EXCEPT !.branches = Put(@, name, Branch(base_sha, NoUpstream))], <<>>)

create_branch(st, name, start_point) ==
    IF name \in DOMAIN st.branches
    THEN Fail(st, <<"fatal: a branch named already exists", name>>, <<>>)
    ELSE IF Truthy(start_point)
              /\ start_point \notin DOMAIN st.branches
              /\ start_point \notin DOMAIN st.commits
    THEN Fail(st, <<"fatal: not a valid object name", start_point>>, <<>>)
    ELSE LET base_sha ==
                 IF Truthy(start_point)
                 THEN IF start_point \in DOMAIN st.branches
                      THEN st.branches[start_point].commit_sha
                      ELSE start_point
                 ELSE st.branches[st.head].commit_sha
         IN  OkMsg([st EXCEPT !.branches = Put(@, name, Branch(base_sha, NoUpstream))], <<>>)

\* delete_branch without its test of the current branch
delete_branch_current_too(st, name, force) ==
    IF name \notin DOMAIN st.branches
    THEN Fail(st, <<"error: branch not found", name>>, <<>>)
    ELSE IF name = "main" /\ ~force
    THEN Fail(st, <<"error: cannot delete the main branch">>, <<>>)
    ELSE Ok([st EXCEPT !.branches = Del(@, name)], <<"Deleted branch", name>>)

\* delete_branch without its protection of "main"
delete_branch_main_unprotected(st, name, force) ==
    IF name \notin DOMAIN st.branches
    THEN Fail(st, <<"error: branch not found", name>>, <<>>)
    ELSE IF name = st.head
    THEN Fail(st, <<"error: cannot delete branch used by worktree", name>>, <<>>)
    ELSE Ok([st EXCEPT !.branches = Del(@, name)], <<"Deleted branch", name>>)

delete_branch(st, name, force) ==
    IF name \notin DOMAIN st.branches
    THEN Fail(st, <<"error: branch not found", name>>, <<>>)
    ELSE IF name = st.head
    THEN Fail(st, <<"error: cannot delete branch used by worktree", name>>, <<>>)
    ELSE IF name = "main" /\ ~force
    THEN Fail(st, <<"error: cannot delete the main branch">>, <<>>)
    ELSE Ok([st EXCEPT !.branches = Del(@, name)], <<"Deleted branch", name>>)

\* a checkout that creates the branch it does not find, flag or no flag
checkout_creates_missing(st, target, create) ==
    IF create /\ target \in DOMAIN st.branches
    THEN Fail(st, <<"fatal: a branch named already exists", target>>, <<>>)
    ELSE LET s1 == IF target \in DOMAIN st.branches THEN st
                   ELSE create_branch(st, target, None).st
         IN  Ok([s1 EXCEPT !.head = target], <<"Switched to branch", target>>)

\* a checkout whose create form makes the branch and stays where it was
checkout_create_keeps_head(st, target, create) ==
    IF create
    THEN create_branch(st, target, None)
    ELSE IF target \notin DOMAIN st.branches
    THEN Fail(st, <<"error: pathspec did not match any branch", target>>,
              << <<"Did you mean to create branch? Use: git checkout -b", target>> >>)
    ELSE Ok([st EXCEPT !.head = target], <<"Switched to branch", target>>)

checkout(st, target, create) ==
    IF create /\ target \in DOMAIN st.branches
    THEN Fail(st, <<"fatal: a branch named already exists", target>>, <<>>)
    ELSE LET created == IF create THEN create_branch(st, target, None) ELSE OkMsg(st, <<>>)
             s1 == created.st
         IN  IF ~created.res.success
             THEN created
             ELSE IF target \notin DOMAIN s1.branches
             THEN Fail(s1, <<"error: pathspec did not match any branch", target>>,
                       << <<"Did you mean to create branch? Use: git checkout -b", target>> >>)
             ELSE Ok([s1 EXCEPT !.head = target], <<"Switched to branch", target>>)

\* add_file that stages every pending file and keeps the working-tree list
add_file_keeps_working(st, filename) ==
    IF filename \in {".", "-A", "--all"}
    THEN OkMsg([st EXCEPT
                   !.staged_changes = @ \o [i \in 1..Len(st.working_changes) |->
                                               StagedChange(st.working_changes[i], "modified")]],
               <<>>)
    ELSE LET inWorking == InSeq(filename, st.working_changes)
             s1 == IF inWorking
                   THEN [st EXCEPT !.working_changes = RemoveFirst(filename, @)]
                   ELSE st
             change_type == IF inWorking THEN "modified" ELSE "added"
         IN  IF \E i \in 1..Len(s1.staged_changes) : s1.staged_changes[i].filename = filename
             THEN OkMsg(s1, <<>>)
             ELSE OkMsg([s1 EXCEPT !.staged_changes = Append(@, StagedChange(filename, change_type))],
                        <<>>)

add_file(st, filename) ==
    IF filename \in {".", "-A", "--all"}
    THEN OkMsg([st EXCEPT
                   !.staged_changes = @ \o [i \in 1..Len(st.working_changes) |->
                                               StagedChange(st.working_changes[i], "modified")],
                   !.working_changes = <<>>], <<>>)
    ELSE LET inWorking == InSeq(filename, st.working_changes)
             s1 == IF inWorking
                   THEN [st EXCEPT !.working_changes = RemoveFirst(filename, @)]
                   ELSE st
             change_type == IF inWorking THEN "modified" ELSE "added"
         IN  IF \E i \in 1..Len(s1.staged_changes) : s1.staged_changes[i].filename = filename
             THEN OkMsg(s1, <<>>)
             ELSE OkMsg([s1 EXCEPT !.staged_changes = Append(@, StagedChange(filename, change_type))],
                        <<>>)

unstage_file(st, filename) ==
    IF \E i \in 1..Len(st.staged_changes) : st.staged_changes[i].filename = filename
    THEN LET i == CHOOSE k \in 1..Len(st.staged_changes) :
                      /\ st.staged_changes[k].filename = filename
                      /\ \A j \in 1..(k-1) : st.staged_changes[j].filename # filename
         IN  OkMsg([st EXCEPT !.staged_changes = PopAt(@, i),
                              !.working_changes = Append(@, filename)], <<>>)
    ELSE Fail(st, <<"error: pathspec is not staged", filename>>, <<>>)

\* the result of commit once its test of the staged list has passed
commit_staged(s1, message, sha) ==
    LET files == [i \in 1..Len(s1.staged_changes) |-> s1.staged_changes[i].filename]
        parent_sha == s1.branches[s1.head].commit_sha
        new_commit == Commit(<<message>>, parent_sha, files)
    IN  Ok([s1 EXCEPT !.commits = Put(@, sha, new_commit),
                      !.branches[s1.head].commit_sha = sha,
                      !.staged_changes = <<>>],
           <<"commit summary", s1.head, sha, message, Len(files),
             IF Len(files) = 1 THEN "file changed" ELSE "files changed">>)

\* commit that tests the staged list as it was before the add-all staging
commit_tests_stale_list(st, message, add_all, sha) ==
    LET s1 == IF add_all THEN add_file(st, "-A").st ELSE st
    IN  IF st.staged_changes = <<>>
        THEN Fail(s1, <<"nothing to commit, working tree clean">>,
                  << <<"Use 'git add <file>' to stage changes">> >>)
        ELSE commit_staged(s1, message, sha)

\* commit without its test of the staged list
commit_allows_empty(st, message, add_all, sha) ==
    commit_staged(IF add_all THEN add_file(st, "-A").st ELSE st, message, sha)

\* sha is the value _generate_sha returns when it is called
commit(st, message, add_all, sha) ==
    LET s1 == IF add_all THEN add_file(st, "-A").st ELSE st
    IN  IF s1.staged_changes = <<>>
        THEN Fail(s1, <<"nothing to commit, working tree clean">>,
                  << <<"Use 'git add <file>' to stage changes">> >>)
        ELSE commit_staged(s1, message, sha)

push(st, remote, branch, set_upstream) ==
    LET branch_name == IF Truthy(branch) THEN branch ELSE st.head
    IN  IF branch_name \notin DOMAIN st.branches
        THEN Fail(st, <<"error: src refspec does not match any", branch_name>>, <<>>)
        ELSE LET remote_name == <<remote, branch_name>>
                 s1 == [st EXCEPT !.remote_branches =
                                      Put(@, remote_name,
                                          Branch(st.branches[branch_name].commit_sha, NoUpstream))]
                 s2 == IF set_upstream
                       THEN [s1 EXCEPT !.branches[branch_name].upstream = remote_name]
                       ELSE s1
                 line == IF remote_name \notin DOMAIN s2.remote_branches
                         THEN <<"* [new branch]", branch_name>>
                         ELSE <<"update", s2.branches[branch_name].commit_sha, branch_name>>
             IN  Ok(s2, <<"push transcript", line, set_upstream>>)

merge(st, branch, no_ff, sha) ==
    IF branch \notin DOMAIN st.branches
    THEN Fail(st, <<"merge: not something we can merge", branch>>, <<>>)
    ELSE LET source_commit == st.commits[st.branches[branch].commit_sha]
             merge_commit == Commit(<<"Merge branch into", branch, st.head>>,
                                    st.branches[st.head].commit_sha,
                                    source_commit.files_changed)
         IN  Ok([st EXCEPT !.commits = Put(@, sha, merge_commit),
                           !.branches[st.head].commit_sha = sha],
                <<"Merge made by the 'ort' strategy.", Len(source_commit.files_changed)>>)

\* RepositoryState(): the field defaults
RepositoryState ==
    [commits |-> <<>>,
     branches |-> <<>>,
     remote_branches |-> <<>>,
     head |-> "main",
     staged_changes |-> <<>>,
     working_changes |-> <<>>,
     pull_requests |-> <<>>,
     next_pr_number |-> 1,
     remote_url |-> None]

\* data.get(key, default)
DataGet(data, key, default) == IF key \in DOMAIN data THEN data[key] ELSE default

export_state(st) ==
    [commits |-> [sha \in DOMAIN st.commits |->
                     [sha |-> sha,
                      message |-> st.commits[sha].message,
                      parent_sha |-> st.commits[sha].parent_sha,
                      files_changed |-> st.commits[sha].files_changed]],
     branches |-> [name \in DOMAIN st.branches |->
                      [name |-> name,
                       commit_sha |-> st.branches[name].commit_sha,
                       upstream |-> st.branches[name].upstream]],
     head |-> st.head,
     staged_changes |-> [i \in 1..Len(st.staged_changes) |->
                            [filename |-> st.staged_changes[i].filename,
                             change_type |-> st.staged_changes[i].change_type]],
     working_changes |-> st.working_changes]

\* an import that writes the snapshot's fields over the state it finds
import_state_over_old(st, data) ==
    LET commits == DataGet(data, "commits", <<>>)
        branches == DataGet(data, "branches", <<>>)
        staged == DataGet(data, "staged_changes", <<>>)
    IN  [st EXCEPT
            !.commits = [sha \in DOMAIN commits |->
                            Commit(commits[sha].message, commits[sha].parent_sha,
                                   commits[sha].files_changed)],
            !.branches = [name \in DOMAIN branches |->
                             Branch(branches[name].commit_sha, branches[name].upstream)],
            !.head = DataGet(data, "head", "main"),
            !.staged_changes = [i \in 1..Len(staged) |->
                                   StagedChange(staged[i].filename, staged[i].change_type)],
            !.working_changes = DataGet(data, "working_changes", <<>>)]

\* returns the state it leaves (the method returns None)
import_state(st, data) ==
    LET commits == DataGet(data, "commits", <<>>)
        branches == DataGet(data, "branches", <<>>)
        staged == DataGet(data, "staged_changes", <<>>)
    IN  [RepositoryState EXCEPT
            !.commits = [sha \in DOMAIN commits |->
                            Commit(commits[sha].message, commits[sha].parent_sha,
                                   commits[sha].files_changed)],
            !.branches = [name \in DOMAIN branches |->
                             Branch(branches[name].commit_sha, branches[name].upstream)],
            !.head = DataGet(data, "head", "main"),
            !.staged_changes = [i \in 1..Len(staged) |->
                                   StagedChange(staged[i].filename, staged[i].change_type)],
            !.working_changes = DataGet(data, "working_changes", <<>>)]

add_working_change(st, filename) ==
    IF InSeq(filename, st.working_changes)
    THEN st
    ELSE [st EXCEPT !.working_changes = Append(@, filename)]

----------------------------------------------------------------------------
(* SimulatedGitHub *)

\* create_pull_request that leaves next_pr_number as it is
create_pull_request_same_number(st, title, body, source, target) ==
    LET source_branch == IF Truthy(source) THEN source ELSE st.head
    IN  IF source_branch \notin DOMAIN st.branches
        THEN Fail(st, <<"error: branch does not exist", source_branch>>, <<>>)
        ELSE IF source_branch = target
        THEN Fail(st, <<"error: cannot create PR from a branch to itself">>, <<>>)
        ELSE IF <<"origin", source_branch>> \notin DOMAIN st.remote_branches
        THEN Fail(st, <<"error: branch has not been pushed to remote", source_branch>>,
                  << <<"Push your branch first: git push -u origin", source_branch>> >>)
        ELSE LET pr_number == st.next_pr_number
                 pr == PullRequest(pr_number, title, body, source_branch, target)
             IN  Ok([st EXCEPT !.pull_requests = Put(@, pr_number, pr)],
                    <<"Creating pull request", source_branch, target, pr_number>>)

\* create_pull_request without its test of the remote-tracking branch
create_pull_request_unpushed(st, title, body, source, target) ==
    LET source_branch == IF Truthy(source) THEN source ELSE st.head
    IN  IF source_branch \notin DOMAIN st.branches
        THEN Fail(st, <<"error: branch does not exist", source_branch>>, <<>>)
        ELSE IF source_branch = target
        THEN Fail(st, <<"error: cannot create PR from a branch to itself">>, <<>>)
        ELSE LET pr_number == st.next_pr_number
                 pr == PullRequest(pr_number, title, body, source_branch, target)
             IN  Ok([st EXCEPT !.next_pr_number = @ + 1,
                               !.pull_requests = Put(@, pr_number, pr)],
                    <<"Creating pull request", source_branch, target, pr_number>>)

create_pull_request(st, title, body, source, target) ==
    LET source_branch == IF Truthy(source) THEN source ELSE st.head
    IN  IF source_branch \notin DOMAIN st.branches
        THEN Fail(st, <<"error: branch does not exist", source_branch>>, <<>>)
        ELSE IF source_branch = target
        THEN Fail(st, <<"error: cannot create PR from a branch to itself">>, <<>>)
        ELSE IF <<"origin", source_branch>> \notin DOMAIN st.remote_branches
        THEN Fail(st, <<"error: branch has not been pushed to remote", source_branch>>,
                  << <<"Push your branch first: git push -u origin", source_branch>> >>)
        ELSE LET pr_number == st.next_pr_number
                 pr == PullRequest(pr_number, title, body, source_branch, target)
             IN  Ok([st EXCEPT !.next_pr_number = @ + 1,
                               !.pull_requests = Put(@, pr_number, pr)],
                    <<"Creating pull request", source_branch, target, pr_number>>)

\* merge_pull_request without its test of the status
merge_pull_request_any_status(st, pr_number, method, sha) ==
    IF pr_number \notin DOMAIN st.pull_requests
    THEN Fail(st, <<"error: pull request not found", pr_number>>, <<>>)
    ELSE LET pr == st.pull_requests[pr_number]
             s1 == checkout(st, pr.target_branch, FALSE).st
             s2 == merge(s1, pr.source_branch, FALSE, sha).st
             s3 == [s2 EXCEPT !.pull_requests[pr_number].status = "merged"]
         IN  Ok(s3, <<"Merged", pr_number, pr.title>>)

\* sha is the value _generate_sha returns if the repository's merge calls it
merge_pull_request(st, pr_number, method, sha) ==
    IF pr_number \notin DOMAIN st.pull_requests
    THEN Fail(st, <<"error: pull request not found", pr_number>>, <<>>)
    ELSE LET pr == st.pull_requests[pr_number]
         IN  IF pr.status # "open"
             THEN Fail(st, <<"error: pull request is already", pr_number, pr.status>>, <<>>)
             ELSE LET s1 == checkout(st, pr.target_branch, FALSE).st
                      s2 == merge(s1, pr.source_branch, FALSE, sha).st
                      s3 == [s2 EXCEPT !.pull_requests[pr_number].status = "merged"]
                      method_text == CASE method = "squash" -> "Squashed and merged"
                                       [] method = "rebase" -> "Rebased and merged"
                                       [] OTHER -> "Merged"
                  IN  Ok(s3, <<method_text, pr_number, pr.title>>)

\* close_pull_request without its test of the status
close_pull_request_any_status(st, pr_number) ==
    IF pr_number \notin DOMAIN st.pull_requests
    THEN Fail(st, <<"error: pull request not found", pr_number>>, <<>>)
    ELSE Ok([st EXCEPT !.pull_requests[pr_number].status = "closed"],
            <<"Closed pull request", pr_number>>)

close_pull_request(st, pr_number) ==
    IF pr_number \notin DOMAIN st.pull_requests
    THEN Fail(st, <<"error: pull request not found", pr_number>>, <<>>)
    ELSE LET pr == st.pull_requests[pr_number]
         IN  IF pr.status # "open"
             THEN Fail(st, <<"error: pull request is already", pr_number, pr.status>>, <<>>)
             ELSE Ok([st EXCEPT !.pull_requests[pr_number].status = "closed"],
                     <<"Closed pull request", pr_number>>)

request_review(st, pr_number, reviewers) ==
    IF pr_number \notin DOMAIN st.pull_requests
    THEN Fail(st, <<"error: pull request not found", pr_number>>, <<>>)
    ELSE Ok([st EXCEPT !.pull_requests[pr_number].reviews =
                           @ \o [i \in 1..Len(reviewers) |->
                                    [reviewer |-> reviewers[i], status |-> "pending",
                                     comment |-> ""]]],
            <<"Requested review from", reviewers>>)

\* add_review that sets the approved flag from the latest review alone
add_review_latest_decides(st, pr_number, reviewer, status, comment) ==
    IF pr_number \notin DOMAIN st.pull_requests
    THEN Fail(st, <<"error: pull request not found", pr_number>>, <<>>)
    ELSE LET reviews == st.pull_requests[pr_number].reviews
             found == \E i \in 1..Len(reviews) : reviews[i].reviewer = reviewer
             first == CHOOSE i \in 1..Len(reviews) :
                          /\ reviews[i].reviewer = reviewer
                          /\ \A j \in 1..(i-1) : reviews[j].reviewer # reviewer
             entry == [reviewer |-> reviewer, status |-> status, comment |-> comment]
         IN  Ok([st EXCEPT !.pull_requests[pr_number].reviews =
                               IF found THEN [@ EXCEPT ![first] = entry]
                               ELSE Append(@, entry),
                           !.pull_requests[pr_number].approved = (status = "approved")],
                <<reviewer, status, comment>>)

add_review(st, pr_number, reviewer, status, comment) ==
    IF pr_number \notin DOMAIN st.pull_requests
    THEN Fail(st, <<"error: pull request not found", pr_number>>, <<>>)
    ELSE LET reviews == st.pull_requests[pr_number].reviews
             found == \E i \in 1..Len(reviews) : reviews[i].reviewer = reviewer
             first == CHOOSE i \in 1..Len(reviews) :
                          /\ reviews[i].reviewer = reviewer
                          /\ \A j \in 1..(i-1) : reviews[j].reviewer # reviewer
             entry == [reviewer |-> reviewer, status |-> status, comment |-> comment]
             s1 == [st EXCEPT !.pull_requests[pr_number].reviews =
                                  IF found THEN [@ EXCEPT ![first] = entry]
                                  ELSE Append(@, entry)]
             s2 == IF status = "approved"
                   THEN [s1 EXCEPT !.pull_requests[pr_number].approved = TRUE]
                   ELSE s1
         IN  Ok(s2, <<reviewer, status, comment>>)

----------------------------------------------------------------------------
(* CommandExecutor.  A ParsedCommand is a record                           *)
(*   [command_type, command, subcommand, args, flags]                      *)
(* with args a sequence of strings and flags a function from flag names    *)
(* to a value or None.                                                     *)

ParsedCommand(command_type, command, subcommand, args, flags) ==
    [command_type |-> command_type, command |-> command, subcommand |-> subcommand,
     args |-> args, flags |-> flags]

NoFlags == [f \in {} |-> None]

\* dict.get(k)
Get(flags, k) == IF k \in DOMAIN flags THEN flags[k] ELSE None
\* Python's `a or b` on Optional[str]
Or(a, b) == IF Truthy(a) THEN a ELSE b

\* int(text): the decimal numerals the inputs use; anything else raises ValueError
Numerals == <<"1", "2", "3", "4", "5", "6">>
IsInt(text) == \E n \in 1..Len(Numerals) : Numerals[n] = text
ParseInt(text) == CHOOSE n \in 1..Len(Numerals) : Numerals[n] = text

\* keys of GIT_COMMANDS
GIT_COMMANDS == {"init", "status", "add", "commit", "branch", "checkout", "switch", "merge",
                 "log", "push", "pull", "fetch", "remote", "diff", "reset"}

\* operations that read the state and print; the text of list_branches and
\* list_pull_requests is not modelled here
list_branches(st, all_branches) == Ok(st, <<"branch list", all_branches>>)

\* the names that decorate a commit: the head marker, then the other local
\* branches and the remote-tracking branches at that commit (as sets)
get_decorations(st, sha) ==
    <<IF st.branches[st.head].commit_sha = sha THEN <<"HEAD ->", st.head>> ELSE <<>>,
      {name \in DOMAIN st.branches : st.branches[name].commit_sha = sha /\ name # st.head},
      {name \in DOMAIN st.remote_branches : st.remote_branches[name].commit_sha = sha}>>

\* the loop of get_log: one pass per commit while current_sha is set and
\* visited < count; author and date lines carry no value here
RECURSIVE log_lines(_, _, _, _, _)
log_lines(st, current_sha, visited, count, oneline) ==
    IF ~(Truthy(current_sha) /\ visited < count)
    THEN <<>>
    ELSE IF current_sha \notin DOMAIN st.commits
    THEN <<>>
    ELSE LET commit_ == st.commits[current_sha]
             dec == get_decorations(st, current_sha)
             lines == IF oneline
                      THEN << <<current_sha, dec, commit_.message>> >>
                      ELSE << <<"commit", current_sha, dec>>, <<"Author:">>, <<"Date:">>,
                              <<"">>, <<commit_.message>>, <<"">> >>
         IN  lines \o log_lines(st, commit_.parent_sha, visited + 1, count, oneline)

\* a log that walks one commit further than asked
get_log_one_more(st, count, oneline) ==
    Ok(st, log_lines(st, st.branches[st.head].commit_sha, 0, count + 1, oneline))

get_log(st, count, oneline) ==
    Ok(st, log_lines(st, st.branches[st.head].commit_sha, 0, count, oneline))

RepositoryStatus(current_branch, upstream, ahead, behind, staged, unstaged) ==
    [current_branch |-> current_branch, upstream |-> upstream, ahead |-> ahead,
     behind |-> behind, staged |-> staged, unstaged |-> unstaged]

\* a status that reports a branch with an upstream as ahead, whatever the tips
status_ignores_tips(st) ==
    LET current_branch == st.branches[st.head]
    IN  RepositoryStatus(st.head, current_branch.upstream,
                         IF current_branch.upstream # NoUpstream THEN 1 ELSE 0, 0,
                         st.staged_changes, st.working_changes)

status(st) ==
    LET current_branch == st.branches[st.head]
        upstream == current_branch.upstream
        ahead == IF /\ upstream # NoUpstream
                    /\ upstream \in DOMAIN st.remote_branches
                    /\ current_branch.commit_sha # st.remote_branches[upstream].commit_sha
                 THEN 1 ELSE 0
    IN  RepositoryStatus(st.head, upstream, ahead, 0, st.staged_changes, st.working_changes)

\* the output is the sequence of its lines
get_status_output(st) ==
    LET s == status(st)
        tracking ==
            IF s.upstream # NoUpstream
            THEN IF s.ahead > 0
                 THEN << <<"Your branch is ahead of by commit(s).", s.upstream, s.ahead>>,
                         <<"(use \"git push\" to publish your local commits)">> >>
                 ELSE IF s.behind > 0
                 THEN << <<"Your branch is behind by commit(s).", s.upstream, s.behind>> >>
                 ELSE << <<"Your branch is up to date with", s.upstream>> >>
            ELSE << <<"">> >>
        staged ==
            IF s.staged # <<>>
            THEN << <<"">>, <<"Changes to be committed:">>,
                    <<"(use \"git restore --staged <file>...\" to unstage)">> >>
                 \o [i \in 1..Len(s.staged) |-> <<s.staged[i].change_type, s.staged[i].filename>>]
            ELSE <<>>
        unstaged ==
            IF s.unstaged # <<>>
            THEN << <<"">>, <<"Changes not staged for commit:">>,
                    <<"(use \"git add <file>...\" to update what will be committed)">> >>
                 \o [i \in 1..Len(s.unstaged) |-> <<"modified", s.unstaged[i]>>]
            ELSE <<>>
        clean ==
            IF s.staged = <<>> /\ s.unstaged = <<>>
            THEN << <<"">>, <<"nothing to commit, working tree clean">> >>
            ELSE <<>>
    IN  Ok(st, << <<"On branch", s.current_branch>> >> \o tracking \o staged \o unstaged \o clean)
list_pull_requests(st, filter) == Ok(st, <<"pr list", filter>>)

\* a pull that records the pulled branch in the remote-tracking map
pull_tracks_branch(st, remote, branch) ==
    LET branch_name == IF Truthy(branch) THEN branch ELSE st.head
    IN  Ok([st EXCEPT !.remote_branches =
                          Put(@, <<remote, branch_name>>,
                              Branch(st.branches[st.head].commit_sha, NoUpstream))],
           <<"Already up to date.">>)

pull(st, remote, branch) == Ok(st, <<"Already up to date.">>)

fetch(st, remote) == Ok(st, <<"From remote_url * branch main -> FETCH_HEAD">>)

handle_internal(st, cmd) ==
    IF cmd.command = "help"
    THEN Ok(st, <<"help", cmd.args>>)
    ELSE IF cmd.command \in {"quit", "exit"}
    THEN OkMsg(st, <<"__EXIT__">>)
    ELSE OkMsg(st, <<"Internal command", cmd.command>>)

git_status(st, cmd) == get_status_output(st)

RECURSIVE add_each(_, _)
\* the loop of _git_add over cmd.args
add_each(st, files) ==
    IF files = <<>>
    THEN OkMsg(st, <<>>)
    ELSE LET r == add_file(st, Head(files))
         IN  IF ~r.res.success THEN r ELSE add_each(r.st, Tail(files))

git_add(st, cmd) ==
    IF "-A" \in DOMAIN cmd.flags \/ "--all" \in DOMAIN cmd.flags
    THEN add_file(st, "-A")
    ELSE IF cmd.args = <<>>
    THEN Fail(st, <<"Nothing specified, nothing added.">>,
              << <<"Use 'git add <file>' or 'git add .' to stage files">> >>)
    ELSE add_each(st, cmd.args)

git_commit(st, cmd, sha) ==
    LET message == Or(Get(cmd.flags, "-m"), Get(cmd.flags, "--message"))
    IN  IF ~Truthy(message)
        THEN Fail(st, <<"error: switch 'm' requires a value">>,
                  << <<"Usage: git commit -m 'Your commit message'">> >>)
        ELSE commit(st, message, "-a" \in DOMAIN cmd.flags, sha)

git_branch(st, cmd) ==
    IF "-d" \in DOMAIN cmd.flags \/ "-D" \in DOMAIN cmd.flags
    THEN LET branch_name == Or(Or(Get(cmd.flags, "-d"), Get(cmd.flags, "-D")),
                               IF cmd.args # <<>> THEN cmd.args[1] ELSE None)
         IN  IF ~Truthy(branch_name)
             THEN Fail(st, <<"error: branch name required">>, <<>>)
             ELSE delete_branch(st, branch_name, "-D" \in DOMAIN cmd.flags)
    ELSE IF cmd.args = <<>>
    THEN list_branches(st, "-a" \in DOMAIN cmd.flags \/ "--all" \in DOMAIN cmd.flags)
    ELSE create_branch(st, cmd.args[1], None)

\* _git_checkout and _git_switch differ in their flag names and messages only
checkout_or_switch(st, cmd, short, long, missing_value, missing_branch) ==
    IF short \in DOMAIN cmd.flags \/ long \in DOMAIN cmd.flags
    THEN LET flag_value == Or(Get(cmd.flags, short), Get(cmd.flags, long))
             branch_name == IF ~Truthy(flag_value) /\ cmd.args # <<>>
                            THEN cmd.args[1] ELSE flag_value
         IN  IF ~Truthy(branch_name)
             THEN Fail(st, <<missing_value>>, <<>>)
             ELSE checkout(st, branch_name, TRUE)
    ELSE IF cmd.args = <<>>
    THEN Fail(st, <<missing_branch>>, <<>>)
    ELSE checkout(st, cmd.args[1], FALSE)

git_checkout(st, cmd) ==
    checkout_or_switch(st, cmd, "-b", "--branch", "error: switch 'b' requires a value",
                       "error: you must specify a branch to checkout")

git_switch(st, cmd) ==
    checkout_or_switch(st, cmd, "-c", "--create", "error: switch 'c' requires a value",
                       "error: missing branch name")

git_merge(st, cmd, sha) ==
    IF cmd.args = <<>>
    THEN Fail(st, <<"error: specify a branch to merge">>, <<>>)
    ELSE merge(st, cmd.args[1], "--no-ff" \in DOMAIN cmd.flags, sha)

git_log(st, cmd) ==
    LET n == Get(cmd.flags, "-n")
        count == IF Truthy(n) /\ IsInt(n) THEN ParseInt(n) ELSE 10
    IN  get_log(st, count, "--oneline" \in DOMAIN cmd.flags)

\* _git_push that reads -u and --set-upstream as flags without a value
git_push_ignores_flag_value(st, cmd) ==
    push(st, IF cmd.args # <<>> THEN cmd.args[1] ELSE "origin",
             IF Len(cmd.args) > 1 THEN cmd.args[2] ELSE None,
             "-u" \in DOMAIN cmd.flags \/ "--set-upstream" \in DOMAIN cmd.flags)

git_push(st, cmd) ==
    LET set_upstream == "-u" \in DOMAIN cmd.flags \/ "--set-upstream" \in DOMAIN cmd.flags
        flag_value == Or(Get(cmd.flags, "-u"), Get(cmd.flags, "--set-upstream"))
        consumed == set_upstream /\ Truthy(flag_value)
        remote == IF consumed THEN flag_value
                  ELSE IF cmd.args # <<>> THEN cmd.args[1] ELSE "origin"
        branch == IF consumed
                  THEN IF cmd.args # <<>> THEN cmd.args[1] ELSE None
                  ELSE IF Len(cmd.args) > 1 THEN cmd.args[2] ELSE None
    IN  push(st, remote, branch, set_upstream)

git_pull(st, cmd) ==
    pull(st, IF cmd.args # <<>> THEN cmd.args[1] ELSE "origin",
             IF Len(cmd.args) > 1 THEN cmd.args[2] ELSE None)

git_fetch(st, cmd) == fetch(st, IF cmd.args # <<>> THEN cmd.args[1] ELSE "origin")

git_diff(st, cmd) ==
    IF "--staged" \in DOMAIN cmd.flags \/ "--cached" \in DOMAIN cmd.flags
    THEN Ok(st, <<"diff", [i \in 1..Len(st.staged_changes) |-> st.staged_changes[i].filename]>>)
    ELSE Ok(st, <<"diff", st.working_changes>>)

git_remote(st, cmd) ==
    IF "-v" \in DOMAIN cmd.flags THEN Ok(st, <<"origin url (fetch) (push)">>)
    ELSE Ok(st, <<"origin">>)

handle_git(st, cmd, sha) ==
    CASE cmd.command = "status"   -> git_status(st, cmd)
      [] cmd.command = "add"      -> git_add(st, cmd)
      [] cmd.command = "commit"   -> git_commit(st, cmd, sha)
      [] cmd.command = "branch"   -> git_branch(st, cmd)
      [] cmd.command = "checkout" -> git_checkout(st, cmd)
      [] cmd.command = "switch"   -> git_switch(st, cmd)
      [] cmd.command = "merge"    -> git_merge(st, cmd, sha)
      [] cmd.command = "log"      -> git_log(st, cmd)
      [] cmd.command = "push"     -> git_push(st, cmd)
      [] cmd.command = "pull"     -> git_pull(st, cmd)
      [] cmd.command = "fetch"    -> git_fetch(st, cmd)
      [] cmd.command = "diff"     -> git_diff(st, cmd)
      [] cmd.command = "remote"   -> git_remote(st, cmd)
      [] OTHER ->
            IF cmd.command \in GIT_COMMANDS
            THEN Fail(st, <<"git: not yet implemented in simulation", cmd.command>>, <<>>)
            ELSE Fail(st, <<"git: is not a git command", cmd.command>>,
                      << <<"Type 'help' to see available commands">> >>)

gh_pr_create(st, cmd) ==
    LET title == Or(Get(cmd.flags, "-t"), Get(cmd.flags, "--title"))
        body == Or(Or(Get(cmd.flags, "-b"), Get(cmd.flags, "--body")), "")
        base == Or(Get(cmd.flags, "--base"), "main")
    IN  IF ~Truthy(title)
        THEN Fail(st, <<"error: --title is required">>,
                  << <<"Usage: gh pr create --title 'PR Title' --body 'Description'">> >>)
        ELSE create_pull_request(st, title, body, None, base)

\* pull request numbers in dict order, which is the order of creation
PrNumbers(st) == 1..(st.next_pr_number - 1)

gh_pr_merge(st, cmd, sha) ==
    LET mine == {n \in DOMAIN st.pull_requests :
                    /\ st.pull_requests[n].source_branch = st.head
                    /\ st.pull_requests[n].status = "open"}
        method == IF "--squash" \in DOMAIN cmd.flags THEN "squash"
                  ELSE IF "--rebase" \in DOMAIN cmd.flags THEN "rebase" ELSE "merge"
    IN  IF cmd.args = <<>>
        THEN IF mine = {}
             THEN Fail(st, <<"error: no open pull request for current branch">>, <<>>)
             ELSE merge_pull_request(st, CHOOSE n \in mine : \A k \in mine : n <= k, method, sha)
        ELSE IF ~IsInt(cmd.args[1])
        THEN Fail(st, <<"error: invalid PR number">>, <<>>)
        ELSE merge_pull_request(st, ParseInt(cmd.args[1]), method, sha)

gh_pr_close(st, cmd) ==
    IF cmd.args = <<>>
    THEN Fail(st, <<"error: PR number required">>, <<>>)
    ELSE IF ~IsInt(cmd.args[1])
    THEN Fail(st, <<"error: invalid PR number">>, <<>>)
    ELSE close_pull_request(st, ParseInt(cmd.args[1]))

gh_pr_list(st, cmd) == list_pull_requests(st, Or(Get(cmd.flags, "--state"), "open"))

gh_pr_view(st, cmd) ==
    LET mine == {n \in DOMAIN st.pull_requests : st.pull_requests[n].source_branch = st.head}
    IN  IF cmd.args = <<>> /\ mine = {}
        THEN Fail(st, <<"no pull request found for current branch">>, <<>>)
        ELSE IF cmd.args # <<>> /\ ~IsInt(cmd.args[1])
        THEN Fail(st, <<"error: invalid PR number">>, <<>>)
        ELSE LET pr_number == IF cmd.args = <<>>
                              THEN CHOOSE n \in mine : \A k \in mine : n <= k
                              ELSE ParseInt(cmd.args[1])
             IN  IF pr_number \notin DOMAIN st.pull_requests
                 THEN Fail(st, <<"error: pull request not found", pr_number>>, <<>>)
                 ELSE Ok(st, <<"pr view", pr_number, st.pull_requests[pr_number].status>>)

handle_gh(st, cmd, sha) ==
    IF cmd.command # "pr"
    THEN Fail(st, <<"gh: is not supported. Only 'gh pr' commands are available.", cmd.command>>,
              <<>>)
    ELSE CASE cmd.subcommand = "create" -> gh_pr_create(st, cmd)
           [] cmd.subcommand = "list"   -> gh_pr_list(st, cmd)
           [] cmd.subcommand = "merge"  -> gh_pr_merge(st, cmd, sha)
           [] cmd.subcommand = "close"  -> gh_pr_close(st, cmd)
           [] cmd.subcommand = "view"   -> gh_pr_view(st, cmd)
           [] OTHER -> Fail(st, <<"gh pr: is not a valid subcommand", cmd.subcommand>>,
                            << <<"Available: create, list, merge, close, view">> >>)

\* an executor that hands every command of another type to the git handlers
execute_other_types_as_git(st, cmd, sha) ==
    CASE cmd.command_type = "internal" -> handle_internal(st, cmd)
      [] cmd.command_type = "gh"       -> handle_gh(st, cmd, sha)
      [] OTHER -> handle_git(st, cmd, sha)

execute(st, cmd, sha) ==
    CASE cmd.command_type = "internal" -> handle_internal(st, cmd)
      [] cmd.command_type = "git"      -> handle_git(st, cmd, sha)
      [] cmd.command_type = "gh"       -> handle_gh(st, cmd, sha)
      [] OTHER -> Fail(st, <<"Unknown command type", cmd.command_type>>, <<>>)

Git(command, args, flags) == ParsedCommand("git", command, None, args, flags)
GhPr(subcommand, args, flags) == ParsedCommand("gh", "pr", subcommand, args, flags)

\* what CommandLexer.parse returns for the command lines of a session
CMDS ==
    { Git("add", <<"a.txt">>, NoFlags),                        \* git add a.txt
      Git("add", <<"a.txt", "b.txt">>, NoFlags),               \* git add a.txt b.txt
      Git("add", <<>>, "-A" :> None),                          \* git add -A
      Git("add", <<>>, NoFlags),                               \* git add
      Git("commit", <<>>, "-m" :> "m"),                        \* git commit -m m
      Git("commit", <<>>, ("-a" :> None) @@ ("-m" :> "m")),    \* git commit -a -m m
      Git("commit", <<>>, NoFlags),                            \* git commit
      Git("checkout", <<>>, "-b" :> "feature"),                \* git checkout -b feature
      Git("checkout", <<"main">>, NoFlags),                    \* git checkout main
      Git("checkout", <<>>, NoFlags),                          \* git checkout
      Git("switch", <<"feature">>, NoFlags),                   \* git switch feature
      Git("switch", <<>>, "-c" :> None),                       \* git switch -c
      Git("branch", <<"feature">>, NoFlags),                   \* git branch feature
      Git("branch", <<>>, "-d" :> "feature"),                  \* git branch -d feature
      Git("branch", <<>>, "-D" :> "main"),                     \* git branch -D main
      Git("branch", <<>>, "-d" :> None),                       \* git branch -d
      Git("merge", <<"feature">>, NoFlags),                    \* git merge feature
      Git("merge", <<>>, NoFlags),                             \* git merge
      Git("push", <<>>, NoFlags),                              \* git push
      Git("push", <<"feature">>, "-u" :> "origin"),            \* git push -u origin feature
      Git("push", <<"fork">>, NoFlags),                        \* git push fork
      Git("pull", <<>>, NoFlags),                              \* git pull
      Git("fetch", <<>>, NoFlags),                             \* git fetch
      Git("log", <<>>, NoFlags),                               \* git log
      Git("log", <<>>, ("-n" :> "1") @@ ("--oneline" :> None)),   \* git log -n 1 --oneline
      Git("status", <<>>, NoFlags),                            \* git status
      Git("reset", <<>>, NoFlags),                             \* git reset
      Git("init", <<>>, NoFlags),                              \* git init
      Git("stash", <<>>, NoFlags),                             \* git stash
      GhPr("create", <<>>, "--title" :> "T"),                  \* gh pr create --title T
      GhPr("create", <<>>, ("--title" :> "T") @@ ("--base" :> "feature")),
                                                               \* gh pr create --title T --base feature
      GhPr("create", <<>>, NoFlags),                           \* gh pr create
      GhPr("merge", <<"1">>, NoFlags),                         \* gh pr merge 1
      GhPr("merge", <<>>, NoFlags),                            \* gh pr merge
      GhPr("merge", <<"one">>, NoFlags),                       \* gh pr merge one
      GhPr("close", <<"1">>, NoFlags),                         \* gh pr close 1
      GhPr("close", <<>>, NoFlags),                            \* gh pr close
      GhPr("list", <<>>, NoFlags),                             \* gh pr list
      GhPr("view", <<>>, NoFlags),                             \* gh pr view
      GhPr("checkout", <<>>, NoFlags),                         \* gh pr checkout
      ParsedCommand("gh", "issue", None, <<>>, NoFlags),       \* gh issue
      ParsedCommand("internal", "help", None, <<>>, NoFlags),  \* help
      ParsedCommand("shell", "ls", None, <<>>, NoFlags) }

----------------------------------------------------------------------------
(* CommandLexer.  A command line is the sequence of tokens shlex.split      *)
(* makes of it; str.startswith and `"=" in token` are tables over the       *)
(* tokens the command lines use.                                            *)

\* str.lower on the tokens and atoms the inputs use
Lower(a) == CASE a = "Git" -> "git"
              [] a = "Fix" -> "fix"
              [] a = "M" -> "m"
              [] OTHER -> a

LONG_FLAG_TOKENS == {"--set-upstream", "--no-ff", "--title", "--base", "--message", "--all",
                     "--base=feature"}
SHORT_FLAG_TOKENS == {"-u", "-m", "-a", "-A", "-b", "-c", "-d", "-D", "-n", "-t", "-v"}

\* token.startswith("--")
StartsWithDashDash(token) == token \in LONG_FLAG_TOKENS
\* token.startswith("-")
StartsWithDash(token) == token \in LONG_FLAG_TOKENS \cup SHORT_FLAG_TOKENS \cup {"-"}
\* "=" in token, and token.split("=", 1)
HasEq(token) == token = "--base=feature"
SplitEq(token) == IF token = "--base=feature" THEN <<"--base", "feature">> ELSE <<token, "">>

INTERNAL_COMMANDS == {"help", "quit", "exit", "lesson", "lessons", "hint", "skip", "reset"}

ParseError(message) == [error |-> message]
IsParseError(parsed) == "error" \in DOMAIN parsed

RECURSIVE parse_flags_takes_dash_values(_, _, _)
\* parse_flags with the next token taken as a value whatever it starts with
parse_flags_takes_dash_values(remaining, flags, args) ==
    IF remaining = <<>>
    THEN [flags |-> flags, args |-> args]
    ELSE LET token == Head(remaining)
             rest == Tail(remaining)
         IN  IF StartsWithDashDash(token) /\ HasEq(token)
             THEN parse_flags_takes_dash_values(rest, Put(flags, SplitEq(token)[1], SplitEq(token)[2]), args)
             ELSE IF StartsWithDashDash(token) \/ (StartsWithDash(token) /\ token # "-")
             THEN IF rest # <<>>
                  THEN parse_flags_takes_dash_values(Tail(rest), Put(flags, token, Head(rest)), args)
                  ELSE parse_flags_takes_dash_values(rest, Put(flags, token, None), args)
             ELSE parse_flags_takes_dash_values(rest, flags, Append(args, token))

RECURSIVE parse_flags(_, _, _)
\* the while loop of _parse_git_or_gh over the remaining tokens
parse_flags(remaining, flags, args) ==
    IF remaining = <<>>
    THEN [flags |-> flags, args |-> args]
    ELSE LET token == Head(remaining)
             rest == Tail(remaining)
             has_value == rest # <<>> /\ ~StartsWithDash(Head(rest))
         IN  IF StartsWithDashDash(token) /\ HasEq(token)
             THEN parse_flags(rest, Put(flags, SplitEq(token)[1], SplitEq(token)[2]), args)
             ELSE IF StartsWithDashDash(token) \/ (StartsWithDash(token) /\ token # "-")
             THEN IF has_value
                  THEN parse_flags(Tail(rest), Put(flags, token, Head(rest)), args)
                  ELSE parse_flags(rest, Put(flags, token, None), args)
             ELSE parse_flags(rest, flags, Append(args, token))

parse_git_or_gh(tokens, cmd_type) ==
    LET command == tokens[2]
        after == SubSeq(tokens, 3, Len(tokens))
        has_sub == cmd_type = "gh" /\ command = "pr" /\ after # <<>>
        parsed == parse_flags(IF has_sub THEN Tail(after) ELSE after, NoFlags, <<>>)
    IN  ParsedCommand(cmd_type, command, IF has_sub THEN Head(after) ELSE None,
                      parsed.args, parsed.flags)

\* parse, on the tokens of the stripped input
parse(tokens) ==
    IF tokens = <<>>
    THEN ParseError(<<"Empty command">>)
    ELSE LET cmd_type == Lower(tokens[1])
         IN  IF cmd_type \in INTERNAL_COMMANDS
             THEN ParsedCommand("internal", cmd_type, None, Tail(tokens), NoFlags)
             ELSE IF cmd_type \notin {"git", "gh"}
             THEN ParseError(<<"Unknown command. Commands should start with 'git' or 'gh'.",
                               cmd_type>>)
             ELSE IF Len(tokens) < 2
             THEN ParseError(<<"requires a subcommand", cmd_type>>)
             ELSE parse_git_or_gh(tokens, cmd_type)

RECURSIVE shlex_split(_, _, _, _)
\* shlex.split on an input whose quotes are balanced: whitespace outside
\* quotes ends a token, a quote character opens or closes a quoted run and
\* is dropped, everything else is added to the current token (cur is None
\* while no token has begun, quote is None outside quotes)
shlex_split(s, cur, quote, acc) ==
    IF s = <<>>
    THEN IF cur = None THEN acc ELSE Append(acc, cur)
    ELSE LET c == Head(s)
             token == IF cur = None THEN "" ELSE cur
         IN  IF quote # None
             THEN IF c = quote
                  THEN shlex_split(Tail(s), token, None, acc)
                  ELSE shlex_split(Tail(s), token \o c, quote, acc)
             ELSE IF c = " "
             THEN shlex_split(Tail(s), None, None, IF cur = None THEN acc ELSE Append(acc, cur))
             ELSE IF c \in {"'", "\""}
             THEN shlex_split(Tail(s), token, c, acc)
             ELSE shlex_split(Tail(s), token \o c, None, acc)

\* GitGoodApp._execute_command: a ParseError is printed and nothing is executed
execute_command(st, tokens, sha) ==
    LET parsed == parse(tokens)
    IN  IF IsParseError(parsed)
        THEN Fail(st, parsed.error, <<>>)
        ELSE execute(st, parsed, sha)

\* the command lines typed in a session
COMMAND_LINES ==
    { <<"git", "push", "-u", "origin", "feature">>,
      <<"git", "push", "origin", "feature", "-u">>,
      <<"git", "push", "--set-upstream", "origin", "feature">>,
      <<"git", "commit", "-m", "m", "-m", "fix">>,
      <<"git", "checkout", "-b", "-">>,
      <<"git", "merge", "--no-ff", "feature">>,
      <<"git", "merge", "feature", "--no-ff">>,
      <<"Git", "push", "-u">>,
      <<"gh", "pr", "create", "--title", "T", "--base=feature">>,
      <<"help", "push">>,
      <<"git">>,
      <<"ls">>,
      <<>> }

----------------------------------------------------------------------------
(* LessonEngine.  A command string is a sequence of atoms: " " is          *)
(* whitespace, "'" and "\"" are the quote characters, and every other atom *)
(* is a maximal run of other characters.                                    *)

RECURSIVE SplitWords(_, _, _)
\* str.split(): the maximal runs of non-whitespace atoms
SplitWords(s, cur, acc) ==
    IF s = <<>>
    THEN IF cur = <<>> THEN acc ELSE Append(acc, cur)
    ELSE IF Head(s) = " "
    THEN SplitWords(Tail(s), <<>>, IF cur = <<>> THEN acc ELSE Append(acc, cur))
    ELSE SplitWords(Tail(s), Append(cur, Head(s)), acc)

\* " ".join(cmd.split()).lower(), kept as the sequence of its words
normalize_command(cmd) ==
    LET words == SplitWords(cmd, <<>>, <<>>)
    IN  [i \in 1..Len(words) |-> [j \in 1..Len(words[i]) |-> Lower(words[i][j])]]

\* str.replace("'", '"') on a normalised command
ReplaceQuotes(words) ==
    [i \in 1..Len(words) |-> [j \in 1..Len(words[i]) |->
        IF words[i][j] = "'" THEN "\"" ELSE words[i][j]]]

\* str.startswith("git ") on a normalised command
StartsWithGit(words) == Len(words) >= 2 /\ words[1] = <<"git">>

\* _commands_match without its replacement of quote characters
commands_match_quotes_differ(input_cmd, expected_cmd) ==
    \/ input_cmd = expected_cmd
    \/ /\ StartsWithGit(input_cmd)
       /\ StartsWithGit(expected_cmd)
       /\ {input_cmd[i] : i \in 1..Len(input_cmd)}
            = {expected_cmd[i] : i \in 1..Len(expected_cmd)}

commands_match(input_cmd, expected_cmd) ==
    \/ input_cmd = expected_cmd
    \/ ReplaceQuotes(input_cmd) = ReplaceQuotes(expected_cmd)
    \/ /\ StartsWithGit(ReplaceQuotes(input_cmd))
       /\ StartsWithGit(ReplaceQuotes(expected_cmd))
       /\ {ReplaceQuotes(input_cmd)[i] : i \in 1..Len(input_cmd)}
            = {ReplaceQuotes(expected_cmd)[i] : i \in 1..Len(expected_cmd)}

LessonStep(step_type, expected_commands, command_pattern, failure_hints, setup_changes) ==
    [step_type |-> step_type, expected_commands |-> expected_commands,
     command_pattern |-> command_pattern, failure_hints |-> failure_hints,
     setup_changes |-> setup_changes]

\* a regex is modelled by the set of raw inputs re.match accepts; NoPattern is None
NoPattern == {}

GitAddA == <<"git", " ", "add", " ", "a.txt">>
GitCommitM == <<"git", " ", "commit", " ", "-m", " ", "'", "m", "'">>
GitCommitMDouble == <<"git", " ", "commit", " ", "-m", " ", "\"", "M", "\"">>
GitStatus == <<"git", " ", "status">>
GitCommitFixBug == <<"git", " ", "commit", " ", "-m", " ", "'", "Fix", " ", "bug", "'">>
GitCommitFixBugDouble == <<"git", " ", "commit", " ", "-m", " ", "\"", "Fix", " ", "bug", "\"">>
GitCommitMessageFixBug ==
    <<"git", " ", "commit", " ", "--message", " ", "\"", "Fix", " ", "bug", "\"">>
GitCommitFixBugReordered ==
    <<"Git", " ", " ", "commit", " ", "\"", "fix", " ", "bug", "\"", " ", "-m">>

\* the lessons registered with add_lesson
\* Lesson.initial_state when it is None or an empty mapping: both are false
\* in `if lesson.initial_state`
NoSnapshot == <<>>

\* snapshots in the shape export_state writes
FeatureSnapshot ==
    [commits |->
        (ShaPool[1] :> [sha |-> ShaPool[1], message |-> <<"Initial commit">>,
                        parent_sha |-> None, files_changed |-> <<"README.md">>])
        @@ (ShaPool[2] :> [sha |-> ShaPool[2], message |-> <<"m">>,
                           parent_sha |-> ShaPool[1], files_changed |-> <<"a.txt">>]),
     branches |->
        ("main" :> [name |-> "main", commit_sha |-> ShaPool[1], upstream |-> NoUpstream])
        @@ ("feature" :> [name |-> "feature", commit_sha |-> ShaPool[2],
                          upstream |-> NoUpstream]),
     head |-> "feature",
     staged_changes |-> << [filename |-> "b.txt", change_type |-> "added"] >>,
     working_changes |-> <<"b.txt">>]

\* a snapshot that leaves out head and both change lists
PartialSnapshot ==
    [commits |->
        (ShaPool[1] :> [sha |-> ShaPool[1], message |-> <<"Initial commit">>,
                        parent_sha |-> None, files_changed |-> <<"README.md">>]),
     branches |->
        ("main" :> [name |-> "main", commit_sha |-> ShaPool[1], upstream |-> NoUpstream])]

SNAPSHOTS == {FeatureSnapshot, PartialSnapshot}

LESSONS ==
    [basics |->
        [steps |-> << LessonStep("explanation", <<>>, NoPattern, <<>>, <<>>),
                      LessonStep("command", <<GitAddA>>, NoPattern, <<"hint 1", "hint 2">>,
                                 <<"a.txt">>),
                      LessonStep("command", <<GitCommitM>>, NoPattern, <<"hint 1">>, <<>>),
                      LessonStep("free_practice", <<>>, NoPattern, <<>>, <<"b.txt">>) >>,
         initial_state |-> NoSnapshot],
     seeded |->
        [steps |-> << LessonStep("free_practice", <<>>, NoPattern, <<>>, <<"a.txt">>),
                      LessonStep("command", <<GitStatus>>, NoPattern, <<>>, <<>>) >>,
         initial_state |-> FeatureSnapshot],
     fixbug |->
        [steps |-> << LessonStep("command", <<GitCommitFixBug>>, NoPattern, <<"hint 1">>, <<>>) >>,
         initial_state |-> NoSnapshot],
     pattern |->
        [steps |-> << LessonStep("command", <<>>, {GitStatus},
                                 <<"hint 1", "hint 2", "hint 3">>, <<>>) >>,
         initial_state |-> NoSnapshot],
     empty |->
        [steps |-> <<>>,
         initial_state |-> NoSnapshot]]

USER_INPUTS == {GitAddA, GitCommitM, GitCommitMDouble, GitStatus, <<>>,
                GitCommitFixBug, GitCommitFixBugDouble, GitCommitMessageFixBug,
                GitCommitFixBugReordered}

InitialEngine ==
    [current_lesson |-> None, current_step_index |-> 0, attempt_count |-> 0,
     completed_lessons |-> {}]

\* get_current_step(): a step exists
HasCurrentStep(eng) ==
    /\ eng.current_lesson # None
    /\ eng.current_step_index < Len(LESSONS[eng.current_lesson].steps)

\* Python lists count from 0
CurrentStep(eng) == LESSONS[eng.current_lesson].steps[eng.current_step_index + 1]

RECURSIVE apply_step_setup(_, _)
apply_step_setup(st, setup_changes) ==
    IF setup_changes = <<>> THEN st
    ELSE apply_step_setup(add_working_change(st, Head(setup_changes)), Tail(setup_changes))

ValidationResult(success, message, hints, advance) ==
    [success |-> success, message |-> message, hints |-> hints, advance |-> advance]

\* str.startswith("git") or str.startswith("gh") on the raw input
StartsWithGitOrGh(user_input) ==
    user_input # <<>> /\ Head(user_input) \in {"git", "gh", "github", "gitk"}

\* attempt_count is the counter after validate_command has incremented it
\* a feedback that reveals the accepted command from the third attempt on
generate_feedback_reveals_early(attempt_count, user_input, step) ==
    LET first == IF user_input = <<>> THEN << <<"Please type a command.">> >>
                 ELSE IF ~StartsWithGitOrGh(user_input)
                 THEN << <<"Git commands start with 'git' or 'gh'.">> >>
                 ELSE [i \in 1..(IF Len(step.failure_hints) < 2 THEN Len(step.failure_hints)
                                 ELSE 2) |-> <<step.failure_hints[i]>>]
        nudge == IF attempt_count >= 3 THEN << <<"Type 'hint' for more help.">> >> ELSE <<>>
        reveal == IF attempt_count >= 3 /\ step.expected_commands # <<>>
                  THEN << <<"Try:", step.expected_commands[1]>> >> ELSE <<>>
    IN  ValidationResult(FALSE, <<"That's not quite right.">>, first \o nudge \o reveal, FALSE)

generate_feedback(attempt_count, user_input, step) ==
    LET first == IF user_input = <<>> THEN << <<"Please type a command.">> >>
                 ELSE IF ~StartsWithGitOrGh(user_input)
                 THEN << <<"Git commands start with 'git' or 'gh'.">> >>
                 ELSE [i \in 1..(IF Len(step.failure_hints) < 2 THEN Len(step.failure_hints)
                                 ELSE 2) |-> <<step.failure_hints[i]>>]
        nudge == IF attempt_count >= 3 THEN << <<"Type 'hint' for more help.">> >> ELSE <<>>
        reveal == IF attempt_count >= 5 /\ step.expected_commands # <<>>
                  THEN << <<"Try:", step.expected_commands[1]>> >> ELSE <<>>
    IN  ValidationResult(FALSE, <<"That's not quite right.">>, first \o nudge \o reveal, FALSE)

\* returns the engine it leaves and the ValidationResult
\* a validation that advances an explanation step on the empty input only
\* and a free-practice step on every other input
validate_command_reads_input(eng, user_input) ==
    IF ~HasCurrentStep(eng)
    THEN [eng |-> eng, res |-> ValidationResult(FALSE, <<"No active lesson step">>, <<>>, FALSE)]
    ELSE LET step == CurrentStep(eng)
             e1 == [eng EXCEPT !.attempt_count = @ + 1]
             normalized_input == normalize_command(user_input)
         IN  [eng |-> e1,
              res |->
                CASE step.step_type = "explanation" ->
                        ValidationResult(TRUE, <<>>, <<>>, user_input = <<>>)
                  [] step.step_type = "free_practice" ->
                        ValidationResult(TRUE, <<>>, <<>>, user_input # <<>>)
                  [] step.step_type = "command" ->
                        IF \/ \E i \in 1..Len(step.expected_commands) :
                                 commands_match(normalized_input,
                                                normalize_command(step.expected_commands[i]))
                           \/ user_input \in step.command_pattern
                        THEN ValidationResult(TRUE, <<"Correct!">>, <<>>, TRUE)
                        ELSE generate_feedback(e1.attempt_count, user_input, step)
                  [] OTHER -> ValidationResult(FALSE, <<"Unknown step type">>, <<>>, FALSE)]

validate_command(eng, user_input) ==
    IF ~HasCurrentStep(eng)
    THEN [eng |-> eng, res |-> ValidationResult(FALSE, <<"No active lesson step">>, <<>>, FALSE)]
    ELSE LET step == CurrentStep(eng)
             e1 == [eng EXCEPT !.attempt_count = @ + 1]
             normalized_input == normalize_command(user_input)
         IN  [eng |-> e1,
              res |->
                CASE step.step_type = "explanation" -> ValidationResult(TRUE, <<>>, <<>>, TRUE)
                  [] step.step_type = "free_practice" -> ValidationResult(TRUE, <<>>, <<>>, FALSE)
                  [] step.step_type = "command" ->
                        IF \/ \E i \in 1..Len(step.expected_commands) :
                                 commands_match(normalized_input,
                                                normalize_command(step.expected_commands[i]))
                           \/ user_input \in step.command_pattern
                        THEN ValidationResult(TRUE, <<"Correct!">>, <<>>, TRUE)
                        ELSE generate_feedback(e1.attempt_count, user_input, step)
                  [] OTHER -> ValidationResult(FALSE, <<"Unknown step type">>, <<>>, FALSE)]

\* hint_index can be -1, which in a Python list is the last entry
get_hint(eng) ==
    IF ~HasCurrentStep(eng)
    THEN <<"No active lesson step.">>
    ELSE LET step == CurrentStep(eng)
             last == Len(step.failure_hints) - 1
             hint_index == IF eng.attempt_count - 1 < last THEN eng.attempt_count - 1 ELSE last
             words == SplitWords(step.expected_commands[1], <<>>, <<>>)
         IN  IF step.step_type = "explanation"
             THEN <<"Press Enter to continue.">>
             ELSE IF step.failure_hints # <<>>
             THEN <<step.failure_hints[IF hint_index < 0
                                       THEN Len(step.failure_hints) + hint_index + 1
                                       ELSE hint_index + 1]>>
             ELSE IF step.expected_commands # <<>>
             THEN IF Len(words) > 2
                  THEN <<"The command starts with: ...", words[1], words[2]>>
                  ELSE <<"The command starts with: ...", words[1]>>
             ELSE <<"Keep trying!">>

\* a completion that remembers only the lesson just completed
complete_lesson_keeps_latest(eng) ==
    IF eng.current_lesson # None
    THEN [eng EXCEPT !.completed_lessons = {eng.current_lesson},
                     !.current_lesson = None,
                     !.current_step_index = 0]
    ELSE eng

complete_lesson(eng) ==
    IF eng.current_lesson # None
    THEN [eng EXCEPT !.completed_lessons = @ \cup {eng.current_lesson},
                     !.current_lesson = None,
                     !.current_step_index = 0]
    ELSE eng

\* returns the engine and the repository state it leaves
\* an advance that carries the attempt counter over to the next step
advance_step_keeps_attempts(eng, st) ==
    IF eng.current_lesson = None
    THEN [eng |-> eng, st |-> st]
    ELSE LET e1 == [eng EXCEPT !.current_step_index = @ + 1]
         IN  IF e1.current_step_index >= Len(LESSONS[e1.current_lesson].steps)
             THEN [eng |-> complete_lesson(e1), st |-> st]
             ELSE [eng |-> e1, st |-> apply_step_setup(st, CurrentStep(e1).setup_changes)]

advance_step(eng, st) ==
    IF eng.current_lesson = None
    THEN [eng |-> eng, st |-> st]
    ELSE LET e1 == [eng EXCEPT !.current_step_index = @ + 1, !.attempt_count = 0]
         IN  IF e1.current_step_index >= Len(LESSONS[e1.current_lesson].steps)
             THEN [eng |-> complete_lesson(e1), st |-> st]
             ELSE [eng |-> e1, st |-> apply_step_setup(st, CurrentStep(e1).setup_changes)]

\* a start that applies the first step's setup before it imports the snapshot
start_lesson_setup_first(eng, st, lesson_id) ==
    IF lesson_id \notin DOMAIN LESSONS
    THEN [eng |-> eng, st |-> st]
    ELSE LET e1 == [eng EXCEPT !.current_lesson = lesson_id,
                               !.current_step_index = 0,
                               !.attempt_count = 0]
             s1 == IF HasCurrentStep(e1)
                   THEN apply_step_setup(st, CurrentStep(e1).setup_changes)
                   ELSE st
         IN  [eng |-> e1,
              st |-> IF LESSONS[lesson_id].initial_state # NoSnapshot
                     THEN import_state(s1, LESSONS[lesson_id].initial_state)
                     ELSE s1]

start_lesson(eng, st, lesson_id) ==
    IF lesson_id \notin DOMAIN LESSONS
    THEN [eng |-> eng, st |-> st]
    ELSE LET e1 == [eng EXCEPT !.current_lesson = lesson_id,
                               !.current_step_index = 0,
                               !.attempt_count = 0]
             s1 == IF LESSONS[lesson_id].initial_state # NoSnapshot
                   THEN import_state(st, LESSONS[lesson_id].initial_state)
                   ELSE st
         IN  [eng |-> e1,
              st |-> IF HasCurrentStep(e1)
                     THEN apply_step_setup(s1, CurrentStep(e1).setup_changes)
                     ELSE s1]

----------------------------------------------------------------------------
(* The session.  Each step is one call of an operation; `steps` is the     *)
(* number of calls the session may still make.                              *)

NoCall == [op |-> "init", args |-> <<>>, res |-> OkMsg(<<>>, <<>>).res]

\* a new VirtualRepository and LessonEngine, and a session of n calls
Start(n) ==
    /\ state = InitialState(ShaPool[1])
    /\ result = NoCall
    /\ engine = InitialEngine
    /\ steps = n

Init == Start(MaxSteps)
InitReview == Start(MaxReviewSteps)
InitStage == Start(MaxStageSteps)
InitExec == Start(MaxCommands)
InitLesson == Start(MaxLessonSteps)
InitImport == Start(MaxImportSteps)
InitHost == Start(MaxHostSteps)

\* r is what an operation returns: the state it leaves and its CommandResult
Apply(op, args, r) ==
    /\ steps > 0
    /\ state' = r.st
    /\ result' = [op |-> op, args |-> args, res |-> r.res]
    /\ steps' = steps - 1
    /\ UNCHANGED engine

\* a pull request number of the map, or the next one, which is not in it
PR_NUMBERS == 1..state.next_pr_number

CreateBranch ==
    \E name \in BRANCH_NAMES, start_point \in {None} \cup BRANCH_NAMES \cup GenerateSha(state) :
        Apply("create_branch", <<name, start_point>>, create_branch(state, name, start_point))

DeleteBranch ==
    \E name \in BRANCH_NAMES, force \in BOOLEAN :
        Apply("delete_branch", <<name, force>>, delete_branch(state, name, force))

Checkout ==
    \E target \in BRANCH_NAMES, create \in BOOLEAN :
        Apply("checkout", <<target, create>>, checkout(state, target, create))

AddFile ==
    \E filename \in FILES \cup {"-A"} :
        Apply("add_file", <<filename>>, add_file(state, filename))

UnstageFile ==
    \E filename \in FILES :
        Apply("unstage_file", <<filename>>, unstage_file(state, filename))

AddWorkingChange ==
    \E filename \in FILES :
        Apply("add_working_change", <<filename>>,
              OkMsg(add_working_change(state, filename), <<>>))

CommitOp ==
    \E message \in MESSAGES, add_all \in BOOLEAN, sha \in GenerateSha(state) :
        Apply("commit", <<message, add_all, sha>>, commit(state, message, add_all, sha))

Push ==
    \E remote \in REMOTES, branch \in {None} \cup BRANCH_NAMES, set_upstream \in BOOLEAN :
        Apply("push", <<remote, branch, set_upstream>>, push(state, remote, branch, set_upstream))

Merge ==
    \E branch \in BRANCH_NAMES, no_ff \in BOOLEAN, sha \in GenerateSha(state) :
        Apply("merge", <<branch, no_ff, sha>>, merge(state, branch, no_ff, sha))

LOG_COUNTS == {0, 1, 2, 10}

GetLog ==
    \E count \in LOG_COUNTS, oneline \in BOOLEAN :
        Apply("get_log", <<count, oneline>>, get_log(state, count, oneline))

CreatePullRequest ==
    \E source \in {None} \cup BRANCH_NAMES, target \in BRANCH_NAMES :
        Apply("create_pull_request", <<source, target>>,
              create_pull_request(state, "T", "", source, target))

MergePullRequest ==
    \E pr_number \in PR_NUMBERS, sha \in GenerateSha(state) :
        Apply("merge_pull_request", <<pr_number, sha>>,
              merge_pull_request(state, pr_number, "merge", sha))

ClosePullRequest ==
    \E pr_number \in PR_NUMBERS :
        Apply("close_pull_request", <<pr_number>>, close_pull_request(state, pr_number))

RequestReview ==
    \E pr_number \in PR_NUMBERS, reviewer \in REVIEWERS :
        Apply("request_review", <<pr_number, reviewer>>,
              request_review(state, pr_number, <<reviewer>>))

AddReview ==
    \E pr_number \in PR_NUMBERS, reviewer \in REVIEWERS, review_status \in REVIEW_STATUSES :
        Apply("add_review", <<pr_number, reviewer, review_status>>,
              add_review(state, pr_number, reviewer, review_status, ""))

\* CommandExecutor.execute on a parsed command
Execute ==
    \E cmd \in CMDS, sha \in GenerateSha(state) :
        Apply("execute", <<cmd, sha>>, execute(state, cmd, sha))

\* GitGoodApp._execute_command on a command line
ExecuteCommand ==
    \E tokens \in COMMAND_LINES, sha \in GenerateSha(state) :
        Apply("execute_command", <<tokens, sha>>, execute_command(state, tokens, sha))

\* the snapshot is one of SNAPSHOTS or what export_state gives for the state
ImportState ==
    \E data \in SNAPSHOTS \cup {export_state(state)} :
        /\ steps > 0
        /\ state' = import_state(state, data)
        /\ result' = [op |-> "import_state", args |-> <<data>>, res |-> [success |-> TRUE]]
        /\ steps' = steps - 1
        /\ UNCHANGED engine

\* what the learner types at the prompt: the inputs of the lessons and the
\* host's own hint and skip
HOST_INPUTS == USER_INPUTS \cup {<<"hint">>, <<"skip">>}

\* GitGoodApp._run_iteration on one input: an explanation step only waits for
\* Enter; an empty input, hint and skip are handled by the host; on a command
\* step the input is validated, and executed when the validation succeeds;
\* anywhere else the input is executed
run_iteration(st, eng, user_input, sha) ==
    LET unchanged == [st |-> st, eng |-> eng, res |-> [validated |-> FALSE, executed |-> FALSE]]
        advanced == advance_step(eng, st)
        validation == validate_command(eng, user_input)
        executed == execute_command(st, shlex_split(user_input, None, None, <<>>), sha)
        then_advanced == advance_step(validation.eng, executed.st)
    IN  IF HasCurrentStep(eng) /\ CurrentStep(eng).step_type = "explanation"
        THEN [st |-> advanced.st, eng |-> advanced.eng,
              res |-> [validated |-> FALSE, executed |-> FALSE]]
        ELSE IF user_input = <<>>
        THEN unchanged
        ELSE IF user_input = <<"hint">>
        THEN [unchanged EXCEPT !.res = [validated |-> FALSE, executed |-> FALSE,
                                        output |-> get_hint(eng)]]
        ELSE IF user_input = <<"skip">>
        THEN IF eng.current_lesson # None
             THEN [st |-> advanced.st, eng |-> advanced.eng,
                   res |-> [validated |-> FALSE, executed |-> FALSE]]
             ELSE unchanged
        ELSE IF HasCurrentStep(eng) /\ CurrentStep(eng).step_type = "command"
        THEN IF validation.res.success
             THEN [st |-> then_advanced.st, eng |-> then_advanced.eng,
                   res |-> [validated |-> TRUE, executed |-> TRUE,
                            validation |-> validation.res, result |-> executed.res]]
             ELSE [st |-> st, eng |-> validation.eng,
                   res |-> [validated |-> TRUE, executed |-> FALSE,
                            validation |-> validation.res]]
        ELSE [st |-> executed.st, eng |-> eng,
              res |-> [validated |-> FALSE, executed |-> TRUE, result |-> executed.res]]

RunIteration ==
    \E user_input \in HOST_INPUTS, sha \in GenerateSha(state) :
        LET r == run_iteration(state, engine, user_input, sha)
        IN  /\ steps > 0
            /\ state' = r.st
            /\ engine' = r.eng
            /\ result' = [op |-> "run_iteration", args |-> <<user_input, sha>>, res |-> r.res]
            /\ steps' = steps - 1

GetHint ==
    /\ steps > 0
    /\ result' = [op |-> "get_hint", args |-> <<>>,
                  res |-> [success |-> TRUE, output |-> get_hint(engine)]]
    /\ steps' = steps - 1
    /\ UNCHANGED <<state, engine>>

StartLesson ==
    \E lesson_id \in DOMAIN LESSONS \cup {"missing"} :
        LET r == start_lesson(engine, state, lesson_id)
        IN  /\ steps > 0
            /\ engine' = r.eng
            /\ state' = r.st
            /\ result' = [op |-> "start_lesson", args |-> <<lesson_id>>,
                          res |-> [success |-> lesson_id \in DOMAIN LESSONS]]
            /\ steps' = steps - 1

ValidateCommand ==
    \E user_input \in USER_INPUTS :
        LET r == validate_command(engine, user_input)
        IN  /\ steps > 0
            /\ engine' = r.eng
            /\ result' = [op |-> "validate_command", args |-> <<user_input>>, res |-> r.res]
            /\ steps' = steps - 1
            /\ UNCHANGED state

AdvanceStep ==
    LET r == advance_step(engine, state)
    IN  /\ steps > 0
        /\ engine' = r.eng
        /\ state' = r.st
        /\ result' = [op |-> "advance_step", args |-> <<>>,
                      res |-> [success |-> engine.current_lesson # None]]
        /\ steps' = steps - 1

\* the repository and the hosting service, called directly
Next ==
    \/ CreateBranch
    \/ DeleteBranch
    \/ Checkout
    \/ AddFile
    \/ UnstageFile
    \/ AddWorkingChange
    \/ CommitOp
    \/ Push
    \/ Merge
    \/ CreatePullRequest
    \/ MergePullRequest
    \/ ClosePullRequest

Spec == Init /\ [][Next]_vars

\* pull requests and their reviews
NextReview ==
    \/ Checkout
    \/ Push
    \/ CreatePullRequest
    \/ MergePullRequest
    \/ ClosePullRequest
    \/ RequestReview
    \/ AddReview

SpecReview == InitReview /\ [][NextReview]_vars

\* the staging area, with a lesson in progress
NextStage ==
    \/ AddFile
    \/ UnstageFile
    \/ AddWorkingChange
    \/ CommitOp
    \/ StartLesson
    \/ ValidateCommand
    \/ AdvanceStep

SpecStage == InitStage /\ [][NextStage]_vars

\* import of snapshots, directly and by start_lesson, into repositories
\* that have commits, pushed branches and pull requests
NextImport ==
    \/ ImportState
    \/ StartLesson
    \/ Checkout
    \/ AddFile
    \/ CommitOp
    \/ Push
    \/ CreatePullRequest

SpecImport == InitImport /\ [][NextImport]_vars

\* the lesson engine
NextLesson ==
    \/ StartLesson
    \/ ValidateCommand
    \/ AdvanceStep
    \/ GetHint

SpecLesson == InitLesson /\ [][NextLesson]_vars

\* parsed commands through the executor, among direct calls of every operation
NextExec ==
    \/ Execute
    \/ ExecuteCommand
    \/ GetLog
    \/ CreateBranch
    \/ DeleteBranch
    \/ Checkout
    \/ AddFile
    \/ UnstageFile
    \/ AddWorkingChange
    \/ CommitOp
    \/ Push
    \/ Merge
    \/ CreatePullRequest
    \/ MergePullRequest
    \/ ClosePullRequest
    \/ RequestReview
    \/ AddReview

\* the host loop: lessons are started and inputs are typed at the prompt
NextHost ==
    \/ StartLesson
    \/ RunIteration

SpecHost == InitHost /\ [][NextHost]_vars

SpecExec == InitExec /\ [][NextExec]_vars

----------------------------------------------------------------------------
(* Properties of the repository's reference graph *)

\* C1: after any sequence of branch create, branch delete (forced or not),
\* checkout, commit, merge, push and pull request create/merge/close, head
\* names a branch of the local branch map.
HeadIsLocalBranch == state.head \in DOMAIN state.branches

\* "main" has been force-deleted while another branch was current
MainDeletedHeadElsewhere ==
    /\ result.op = "delete_branch"
    /\ result.res.success
    /\ "main" \notin DOMAIN state.branches
    /\ state.head = "feature"

\* C2: the commit id of every local branch and of every remote-tracking
\* branch is a key of the commit map.
BranchTipsAreCommits ==
    /\ \A b \in DOMAIN state.branches : state.branches[b].commit_sha \in DOMAIN state.commits
    /\ \A b \in DOMAIN state.remote_branches :
           state.remote_branches[b].commit_sha \in DOMAIN state.commits

\* a branch has been created at a commit id given as start point, with a
\* second commit made and a branch pushed
BranchCreatedAtCommitId ==
    /\ result.op = "create_branch"
    /\ result.res.success
    /\ result.args[2] \in DOMAIN state.commits
    /\ Cardinality(DOMAIN state.commits) >= 2
    /\ DOMAIN state.remote_branches # {}

\* C3: a call of the repository, the hosting service or the executor that
\* returns success = false leaves the whole repository state as it was.
FailureLeavesState == [][result'.res.success = FALSE => state' = state]_vars

\* `git commit -a -m m` has failed through the executor after an earlier commit
CommitAllFailedAfterCommit ==
    /\ result.op = "execute"
    /\ result.args[1].command = "commit"
    /\ "-a" \in DOMAIN result.args[1].flags
    /\ ~result.res.success
    /\ Cardinality(DOMAIN state.commits) >= 2

\* C4 (as the specification states it): the id a successful commit or merge
\* draws is not an id of the commit map, so the map gains one entry for
\* every commit created.
NewCommitIdIsNew ==
    [][(result'.op \in {"commit", "merge"} /\ result'.res.success)
          => /\ result'.args[3] \notin DOMAIN state.commits
             /\ Cardinality(DOMAIN state'.commits) = Cardinality(DOMAIN state.commits) + 1]_vars

----------------------------------------------------------------------------
(* Properties of commit *)

\* C5 (as the specification states it): commit with an empty staged list
\* fails with the 'nothing to commit' message, changes nothing and leaves the
\* lesson engine as it is.
CommitOnEmptyStageFails ==
    [][(result'.op = "commit" /\ state.staged_changes = <<>>)
          => /\ ~result'.res.success
             /\ result'.res.message = <<"nothing to commit, working tree clean">>
             /\ state' = state
             /\ engine' = engine]_vars

\* C5, amended: commit with an empty staged list, called without add-all or
\* with an empty working-tree list, fails with the 'nothing to commit'
\* message, adds no commit, moves no branch pointer, changes nothing else of
\* the repository and leaves the lesson engine's attempt counter as it is.
CommitOnNothingStagedFails ==
    [][(/\ result'.op = "commit"
        /\ state.staged_changes = <<>>
        /\ (~result'.args[2] \/ state.working_changes = <<>>))
          => /\ ~result'.res.success
             /\ result'.res.message = <<"nothing to commit, working tree clean">>
             /\ state'.commits = state.commits
             /\ state'.branches = state.branches
             /\ state' = state
             /\ engine'.attempt_count = engine.attempt_count
             /\ engine' = engine]_vars

\* commit without add-all has failed with a file pending in the working tree,
\* in a lesson whose step has counted an attempt
CommitFailedDuringLesson ==
    /\ result.op = "commit"
    /\ ~result.args[2]
    /\ ~result.res.success
    /\ state.working_changes # <<>>
    /\ engine.attempt_count > 0

\* C6 (as the specification states it): from every reachable state,
\* add_file("-A") then commit("m") leaves the working-tree and staged lists
\* empty and adds exactly one commit, with the files of the working-tree list
\* as it was before the add.
AddAllThenCommit ==
    LET s1 == add_file(state, "-A").st
    IN  \A sha \in GenerateSha(s1) :
            LET r == commit(s1, "m", FALSE, sha)
            IN  /\ r.st.working_changes = <<>>
                /\ r.st.staged_changes = <<>>
                /\ DOMAIN r.st.commits = DOMAIN state.commits \cup {sha}
                /\ sha \notin DOMAIN state.commits
                /\ r.st.commits[sha].files_changed = state.working_changes

\* C6, amended: add_file("-A") then commit("m") leaves the working-tree list
\* empty; when the staged or the working-tree list held a file, the commit
\* succeeds, the staged list is left empty and the head branch's tip is a
\* commit with message "m" whose files are the staged filenames followed by
\* the working-tree list as it was before the add (that list alone when
\* nothing was staged), no other id entering the commit map; when both lists
\* were empty the commit fails and the state is unchanged.
AddAllThenCommitStagesEverything ==
    LET s1 == add_file(state, "-A").st
        staged == [i \in 1..Len(state.staged_changes) |-> state.staged_changes[i].filename]
    IN  \A sha \in GenerateSha(s1) :
            LET r == commit(s1, "m", FALSE, sha)
            IN  /\ s1.working_changes = <<>>
                /\ r.st.working_changes = <<>>
                /\ IF state.staged_changes = <<>> /\ state.working_changes = <<>>
                   THEN ~r.res.success /\ r.st = state
                   ELSE /\ r.res.success
                        /\ r.st.staged_changes = <<>>
                        /\ r.st.branches[r.st.head].commit_sha = sha
                        /\ r.st.commits[sha].message = <<"m">>
                        /\ r.st.commits[sha].files_changed = staged \o state.working_changes
                        /\ DOMAIN r.st.commits = DOMAIN state.commits \cup {sha}

\* a file is staged and another is pending, and the two calls commit both
StagedAndPendingCommitted ==
    /\ Len(state.staged_changes) = 1
    /\ Len(state.working_changes) = 1
    /\ state.staged_changes[1].filename # state.working_changes[1]
    /\ \E sha \in GenerateSha(state) :
           LET r == commit(add_file(state, "-A").st, "m", FALSE, sha)
           IN  r.res.success /\ Len(r.st.commits[sha].files_changed) = 2

\* C7 (as the specification states it): a successful commit adds exactly one
\* commit to the map, with the head branch's previous tip as parent and the
\* staged filenames in order as files, moves only the head branch's pointer to
\* it, empties the staged list and reports the number of staged entries.
CommitCreatesOneCommit ==
    [][(result'.op = "commit" /\ result'.res.success)
          => LET sha == result'.args[3]
                 s1 == IF result'.args[2] THEN add_file(state, "-A").st ELSE state
                 files == [i \in 1..Len(s1.staged_changes) |-> s1.staged_changes[i].filename]
             IN  /\ sha \notin DOMAIN state.commits
                 /\ DOMAIN state'.commits = DOMAIN state.commits \cup {sha}
                 /\ \A c \in DOMAIN state.commits : state'.commits[c] = state.commits[c]
                 /\ state'.commits[sha].parent_sha = state.branches[state.head].commit_sha
                 /\ state'.commits[sha].files_changed = files
                 /\ state'.head = state.head
                 /\ state'.branches = [state.branches EXCEPT ![state.head].commit_sha = sha]
                 /\ state'.remote_branches = state.remote_branches
                 /\ state'.staged_changes = <<>>
                 /\ result'.res.output[5] = Len(files)
                 /\ (Len(files) = 1 => result'.res.output[6] = "file changed")]_vars

----------------------------------------------------------------------------
(* Properties of pull requests *)

\* C8: pull request numbers start at 1 and the n-th successful create gets
\* number n: the keys of the pull request map are exactly
\* 1..next_pr_number-1, a successful create takes next_pr_number, which is
\* greater than every key, and raises it by one, and no other call changes
\* the keys or next_pr_number, so a closed or merged number is never given again.
PrNumbersCountCreates ==
    /\ [](/\ DOMAIN state.pull_requests = 1..(state.next_pr_number - 1)
          /\ \A n \in DOMAIN state.pull_requests : state.pull_requests[n].number = n)
    /\ [][IF result'.op = "create_pull_request" /\ result'.res.success
          THEN /\ \A n \in DOMAIN state.pull_requests : n < state.next_pr_number
               /\ DOMAIN state'.pull_requests =
                      DOMAIN state.pull_requests \cup {state.next_pr_number}
               /\ state'.pull_requests[state.next_pr_number].status = "open"
               /\ state'.next_pr_number = state.next_pr_number + 1
               /\ \A n \in DOMAIN state.pull_requests :
                      state'.pull_requests[n] = state.pull_requests[n]
          ELSE /\ DOMAIN state'.pull_requests = DOMAIN state.pull_requests
               /\ state'.next_pr_number = state.next_pr_number]_vars

\* a second pull request has been created after the first was closed or merged
CreatedAfterFirstWasEnded ==
    /\ result.op = "create_pull_request"
    /\ result.res.success
    /\ state.next_pr_number = 3
    /\ state.pull_requests[1].status # "open"
    /\ state.pull_requests[2].status = "open"

\* C9: merging an open pull request succeeds and sets its status to merged;
\* the status stays merged, and merging a merged pull request fails with the
\* 'already merged' message, adds no commit and moves no branch pointer.
MergeOnceOnly ==
    [][\A n \in DOMAIN state.pull_requests :
          /\ (result'.op = "merge_pull_request" /\ result'.args[1] = n
                 /\ state.pull_requests[n].status = "open")
                => /\ result'.res.success
                   /\ state'.pull_requests[n].status = "merged"
          /\ state.pull_requests[n].status = "merged"
                => /\ n \in DOMAIN state'.pull_requests
                   /\ state'.pull_requests[n].status = "merged"
          /\ (result'.op = "merge_pull_request" /\ result'.args[1] = n
                 /\ state.pull_requests[n].status = "merged")
                => /\ ~result'.res.success
                   /\ result'.res.message = <<"error: pull request is already", n, "merged">>
                   /\ state'.commits = state.commits
                   /\ state'.branches = state.branches
                   /\ state' = state]_vars

\* a merged pull request has been merged again, and the call failed
MergedTwice ==
    /\ result.op = "merge_pull_request"
    /\ ~result.res.success
    /\ result.args[1] \in DOMAIN state.pull_requests
    /\ state.pull_requests[result.args[1]].status = "merged"
    /\ Cardinality(DOMAIN state.commits) >= 2

\* C10: a pull request whose status is merged or closed keeps that status:
\* every later merge or close of its number fails, and no create,
\* request-review or add-review call alters the status.
EndedStatusIsFinal ==
    [][\A n \in DOMAIN state.pull_requests :
          state.pull_requests[n].status # "open"
             => /\ n \in DOMAIN state'.pull_requests
                /\ state'.pull_requests[n].status = state.pull_requests[n].status
                /\ (result'.op \in {"merge_pull_request", "close_pull_request"}
                       /\ result'.args[1] = n) => ~result'.res.success]_vars

\* an approving review has been added to a closed pull request
ClosedThenApproved ==
    /\ result.op = "add_review"
    /\ result.res.success
    /\ state.pull_requests[result.args[1]].status = "closed"
    /\ state.pull_requests[result.args[1]].approved

\* C11: a pull request whose approved flag is true keeps it true through
\* every later add-review (whatever its status), request-review, merge and
\* close call.
ApprovedStaysTrue ==
    [][\A n \in DOMAIN state.pull_requests :
          state.pull_requests[n].approved
             => /\ n \in DOMAIN state'.pull_requests
                /\ state'.pull_requests[n].approved]_vars

\* the reviewer who approved has since requested changes on the same pull
\* request, whose flag is still true
ApproverRequestedChanges ==
    /\ result.op = "add_review"
    /\ result.res.success
    /\ result.args[3] = "request_changes"
    /\ LET pr == state.pull_requests[result.args[1]]
       IN  /\ pr.approved
           /\ Len(pr.reviews) = 1
           /\ pr.reviews[1].reviewer = result.args[2]
           /\ pr.reviews[1].status = "request_changes"

\* C12 (as the specification states it): create PR from source b (head when
\* none is given) to target t succeeds exactly when b is a local branch, b
\* differs from t and origin/b exists; whenever origin/b is missing it fails
\* with the 'has not been pushed' message and the push hint, and the pull
\* request map and next_pr_number are unchanged.
CreateFailsUnpushedWithHint ==
    [][result'.op = "create_pull_request"
          => LET b == IF Truthy(result'.args[1]) THEN result'.args[1] ELSE state.head
                 t == result'.args[2]
                 pushed == <<"origin", b>> \in DOMAIN state.remote_branches
             IN  /\ result'.res.success <=> (b \in DOMAIN state.branches /\ b # t /\ pushed)
                 /\ ~pushed
                       => /\ ~result'.res.success
                          /\ result'.res.message =
                                 <<"error: branch has not been pushed to remote", b>>
                          /\ result'.res.hints =
                                 << <<"Push your branch first: git push -u origin", b>> >>
                          /\ state'.pull_requests = state.pull_requests
                          /\ state'.next_pr_number = state.next_pr_number]_vars

\* C12, amended: create PR from source b (head when none is given, as always
\* through `gh pr create`) to target t succeeds exactly when b is a local
\* branch, b differs from t and origin/b exists.  The tests are made in that
\* order: when b is a local branch other than t and origin/b is missing, the
\* call fails with the 'has not been pushed' message and the push hint; a
\* missing b or b = t fails with its own message.  Every failure leaves the
\* pull request map and next_pr_number unchanged.
CreateSucceedsIffPushed ==
    [][LET Created(b, t) ==
               LET pushed == <<"origin", b>> \in DOMAIN state.remote_branches
               IN  /\ result'.res.success <=> (b \in DOMAIN state.branches /\ b # t /\ pushed)
                   /\ (b \in DOMAIN state.branches /\ b # t /\ ~pushed)
                         => /\ result'.res.message =
                                   <<"error: branch has not been pushed to remote", b>>
                            /\ result'.res.hints =
                                   << <<"Push your branch first: git push -u origin", b>> >>
                   /\ b \notin DOMAIN state.branches
                         => result'.res.message = <<"error: branch does not exist", b>>
                   /\ (b \in DOMAIN state.branches /\ b = t)
                         => result'.res.message =
                                <<"error: cannot create PR from a branch to itself">>
                   /\ ~result'.res.success
                         => /\ state'.pull_requests = state.pull_requests
                            /\ state'.next_pr_number = state.next_pr_number
                   /\ result'.res.success
                         => /\ state'.pull_requests[state.next_pr_number].source_branch = b
                            /\ state'.pull_requests[state.next_pr_number].target_branch = t
       IN  /\ result'.op = "create_pull_request"
                 => Created(IF Truthy(result'.args[1]) THEN result'.args[1] ELSE state.head,
                            result'.args[2])
           /\ (/\ result'.op = "execute"
               /\ result'.args[1].command_type = "gh"
               /\ result'.args[1].command = "pr"
               /\ result'.args[1].subcommand = "create"
               /\ Truthy(Or(Get(result'.args[1].flags, "-t"),
                             Get(result'.args[1].flags, "--title"))))
                 => Created(state.head, Or(Get(result'.args[1].flags, "--base"), "main"))]_vars

\* `gh pr create --title T` has failed on branch feature, which was pushed
\* to another remote only
CreateFailedPushedElsewhere ==
    /\ result.op = "execute"
    /\ result.args[1].subcommand = "create"
    /\ ~result.res.success
    /\ result.res.message = <<"error: branch has not been pushed to remote", "feature">>
    /\ state.head = "feature"
    /\ <<"fork", "feature">> \in DOMAIN state.remote_branches

----------------------------------------------------------------------------
(* Properties of command lines *)

\* C13: on a repository with a local branch feature, `git push -u origin
\* feature`, `git push origin feature -u` and `git push --set-upstream
\* origin feature`, parsed and executed, all succeed and leave the same
\* state: the state before with origin/feature at feature's tip and
\* feature's upstream set to origin/feature.
PushUpstreamSpellingsAgree ==
    "feature" \in DOMAIN state.branches
       => \A tokens \in { <<"git", "push", "-u", "origin", "feature">>,
                          <<"git", "push", "origin", "feature", "-u">>,
                          <<"git", "push", "--set-upstream", "origin", "feature">> } :
             LET r == execute_command(state, tokens, None)
             IN  /\ r.res.success
                 /\ <<"origin", "feature">> \in DOMAIN r.st.remote_branches
                 /\ r.st.remote_branches[<<"origin", "feature">>].commit_sha
                        = state.branches["feature"].commit_sha
                 /\ r.st.branches["feature"].upstream = <<"origin", "feature">>
                 /\ r.st = [state EXCEPT
                               !.remote_branches =
                                   Put(@, <<"origin", "feature">>,
                                       Branch(state.branches["feature"].commit_sha, NoUpstream)),
                               !.branches["feature"].upstream = <<"origin", "feature">>]

\* `git push -u origin feature` has been typed while main was current
PushedFeatureFromMain ==
    /\ result.op = "execute_command"
    /\ result.args[1] = <<"git", "push", "-u", "origin", "feature">>
    /\ result.res.success
    /\ state.head = "main"
    /\ state.branches["feature"].upstream = <<"origin", "feature">>
    /\ DOMAIN state.remote_branches = {<<"origin", "feature">>}

----------------------------------------------------------------------------
(* Properties of the lesson engine *)

\* C14: on a command step without a pattern, validate_command accepts an
\* input exactly when, for an accepted command, the two are equal after
\* lower-casing, whitespace collapsing and quote unification or, both
\* starting with "git ", have the same set of whitespace-separated tokens;
\* a step accepting only `git commit -m 'Fix bug'` accepts
\* `git commit -m "Fix bug"` and rejects `git commit --message "Fix bug"`.
ValidateComparesTokenSets ==
    [][(/\ result'.op = "validate_command"
        /\ HasCurrentStep(engine)
        /\ CurrentStep(engine).step_type = "command"
        /\ CurrentStep(engine).command_pattern = NoPattern)
          => LET step == CurrentStep(engine)
                 u == ReplaceQuotes(normalize_command(result'.args[1]))
                 Tokens(words) == {words[i] : i \in 1..Len(words)}
                 Same(e) == IF StartsWithGit(u) /\ StartsWithGit(e)
                            THEN Tokens(u) = Tokens(e)
                            ELSE u = e
             IN  /\ result'.res.success
                       <=> \E i \in 1..Len(step.expected_commands) :
                               Same(ReplaceQuotes(normalize_command(step.expected_commands[i])))
                 /\ result'.res.advance = result'.res.success
                 /\ step.expected_commands = <<GitCommitFixBug>>
                       => /\ result'.args[1] = GitCommitFixBugDouble => result'.res.success
                          /\ result'.args[1] = GitCommitMessageFixBug => ~result'.res.success
                          /\ result'.args[1] = GitCommitFixBugReordered => result'.res.success]_vars

\* `git commit --message "Fix bug"` has been rejected on the step that
\* accepts `git commit -m 'Fix bug'`, as the second attempt on that step
AliasRejectedOnFixBugStep ==
    /\ result.op = "validate_command"
    /\ result.args[1] = GitCommitMessageFixBug
    /\ ~result.res.success
    /\ engine.current_lesson = "fixbug"
    /\ engine.current_step_index = 0
    /\ engine.attempt_count = 2

----------------------------------------------------------------------------
(* Properties of merging a pull request and of staging *)

\* C15 (as the specification states it): whenever merge_pull_request returns
\* success, head afterwards is the pull request's target branch, exactly one
\* commit was added to the commit map, and that commit is the target
\* branch's new tip with the target's previous tip as its parent.  Stated
\* here for the calls that draw an id not yet in the commit map.
MergePrLandsOnTarget ==
    [][(/\ result'.op = "merge_pull_request"
        /\ result'.res.success
        /\ result'.args[2] \notin DOMAIN state.commits)
          => LET pr == state.pull_requests[result'.args[1]]
                 target == pr.target_branch
                 sha == result'.args[2]
             IN  /\ state'.head = target
                 /\ target \in DOMAIN state.branches
                 /\ DOMAIN state'.commits = DOMAIN state.commits \cup {sha}
                 /\ state'.branches[target].commit_sha = sha
                 /\ state'.commits[sha].parent_sha = state.branches[target].commit_sha]_vars

\* C16 (as the specification states it): after any sequence of add (one file
\* or all), unstage, commit and add_working_change, no filename appears more
\* than once in the staged list.
StagedNamesDistinct ==
    \A i, j \in 1..Len(state.staged_changes) :
        state.staged_changes[i].filename = state.staged_changes[j].filename => i = j

\* C17 (as the specification states it): add_file of a specific filename that
\* is already in the staged list returns success and leaves the staged list
\* and the working-tree list exactly as they were.
AddStagedFileChangesNothing ==
    [][(/\ result'.op = "add_file"
        /\ result'.args[1] \in FILES
        /\ \E i \in 1..Len(state.staged_changes) :
               state.staged_changes[i].filename = result'.args[1])
          => /\ result'.res.success
             /\ state'.staged_changes = state.staged_changes
             /\ state'.working_changes = state.working_changes]_vars

----------------------------------------------------------------------------
(* Properties of push and of the remote-tracking branches *)

\* C18 (as the specification states it): a successful push of branch b to
\* remote r reports the "new branch" line exactly when no remote-tracking
\* branch r/b existed before the push, and the update line exactly when r/b
\* existed already.
PushReportsNewBranch ==
    [][(result'.op = "push" /\ result'.res.success)
          => LET branch_name == IF Truthy(result'.args[2]) THEN result'.args[2] ELSE state.head
                 existed == <<result'.args[1], branch_name>> \in DOMAIN state.remote_branches
                 line == result'.res.output[2]
             IN  /\ line[1] = "* [new branch]" <=> ~existed
                 /\ line[1] = "update" <=> existed]_vars

\* C19: the remote-tracking branch map changes only in push: every other
\* repository or pull-request operation, called directly or through the
\* executor, leaves the set of remote-tracking branches and each one's commit
\* pointer as they were, and pull and fetch change nothing of the
\* repository state.
RemoteBranchesChangeOnlyInPush ==
    [][LET viaExecutor == result'.op \in {"execute", "execute_command"}
           parsed == IF result'.op = "execute" THEN result'.args[1]
                     ELSE IF result'.op = "execute_command" THEN parse(result'.args[1])
                     ELSE None
           isGit(command) == /\ viaExecutor
                             /\ ~IsParseError(parsed)
                             /\ parsed.command_type = "git"
                             /\ parsed.command = command
       IN  /\ (result'.op # "push" /\ ~isGit("push"))
                 => state'.remote_branches = state.remote_branches
           /\ (isGit("pull") \/ isGit("fetch")) => state' = state]_vars

\* `git pull` has run on a repository that has a remote-tracking branch and
\* a head branch that moved on since it was pushed
PulledBehindPushedBranch ==
    /\ result.op = "execute"
    /\ result.args[1].command = "pull"
    /\ <<"origin", state.head>> \in DOMAIN state.remote_branches
    /\ state.remote_branches[<<"origin", state.head>>].commit_sha
          # state.branches[state.head].commit_sha

----------------------------------------------------------------------------
(* Properties of branch deletion *)

\* C20: delete_branch(name, force), called directly or by `git branch -d/-D
\* name`, succeeds exactly when name is a local branch, is not head, and is
\* not "main" unless force is set; on success that branch entry is removed
\* and everything else of the state (commit map, head, other branches,
\* remote-tracking branches) is as before.
DeleteBranchExactlyWhenAllowed ==
    [][LET cmd == result'.args[1]
           direct == result'.op = "delete_branch"
           flagged == /\ result'.op = "execute"
                      /\ cmd.command_type = "git"
                      /\ cmd.command = "branch"
                      /\ ("-d" \in DOMAIN cmd.flags \/ "-D" \in DOMAIN cmd.flags)
           name == IF direct THEN result'.args[1]
                   ELSE Or(Or(Get(cmd.flags, "-d"), Get(cmd.flags, "-D")),
                           IF cmd.args # <<>> THEN cmd.args[1] ELSE None)
           force == IF direct THEN result'.args[2] ELSE "-D" \in DOMAIN cmd.flags
           allowed == /\ name \in DOMAIN state.branches
                      /\ name # state.head
                      /\ (name = "main" => force)
       IN  (direct \/ flagged)
              => /\ result'.res.success <=> allowed
                 /\ result'.res.success
                       => /\ DOMAIN state'.branches = DOMAIN state.branches \ {name}
                          /\ \A b \in DOMAIN state'.branches :
                                 state'.branches[b] = state.branches[b]
                          /\ state'.commits = state.commits
                          /\ state'.head = state.head
                          /\ state'.remote_branches = state.remote_branches
                          /\ state'.pull_requests = state.pull_requests]_vars

\* `git branch -D main` has deleted main, which had been pushed, while head
\* was on another branch
ForceDeletedPushedMain ==
    /\ result.op = "execute"
    /\ result.args[1].command = "branch"
    /\ "-D" \in DOMAIN result.args[1].flags
    /\ result.res.success
    /\ "main" \notin DOMAIN state.branches
    /\ <<"origin", "main">> \in DOMAIN state.remote_branches

----------------------------------------------------------------------------
(* Properties of checkout and merge *)

\* C21: checkout(target) without the create flag, called directly or by
\* `git checkout target` / `git switch target`, fails with a hint that
\* suggests `git checkout -b target` and changes nothing when target is not
\* a local branch; when target is a local branch it sets head to target and
\* changes nothing else.
CheckoutSwitchesHeadOnly ==
    [][LET cmd == result'.args[1]
           direct == result'.op = "checkout" /\ ~result'.args[2]
           viaGit == /\ result'.op = "execute"
                     /\ cmd.command_type = "git"
                     /\ \/ /\ cmd.command = "checkout"
                           /\ "-b" \notin DOMAIN cmd.flags
                           /\ "--branch" \notin DOMAIN cmd.flags
                        \/ /\ cmd.command = "switch"
                           /\ "-c" \notin DOMAIN cmd.flags
                           /\ "--create" \notin DOMAIN cmd.flags
                     /\ cmd.args # <<>>
           target == IF direct THEN result'.args[1] ELSE cmd.args[1]
       IN  (direct \/ viaGit)
              => IF target \in DOMAIN state.branches
                 THEN /\ result'.res.success
                      /\ state' = [state EXCEPT !.head = target]
                 ELSE /\ ~result'.res.success
                      /\ result'.res.hints =
                            << <<"Did you mean to create branch? Use: git checkout -b", target>> >>
                      /\ state' = state]_vars

\* checkout without the create flag has moved head to a branch whose tip
\* differs from the tip of another local branch
SwitchedBetweenDifferentTips ==
    /\ result.op = "checkout"
    /\ ~result.args[2]
    /\ result.res.success
    /\ \E b \in DOMAIN state.branches :
           state.branches[b].commit_sha # state.branches[state.head].commit_sha

\* C22: checkout(target, create=True), called directly or by
\* `git checkout -b target` / `git switch -c target`, fails and changes
\* nothing when target is already a local branch; on a new name it adds
\* branch target at the tip of the previous head branch and sets head to
\* target, so the new branch and the branch it was created from share a tip.
CheckoutCreateBranchesFromHead ==
    [][LET cmd == result'.args[1]
           direct == result'.op = "checkout" /\ result'.args[2]
           isCheckout == cmd.command = "checkout"
                            /\ ("-b" \in DOMAIN cmd.flags \/ "--branch" \in DOMAIN cmd.flags)
           isSwitch == cmd.command = "switch"
                          /\ ("-c" \in DOMAIN cmd.flags \/ "--create" \in DOMAIN cmd.flags)
           flag_value == IF isCheckout
                         THEN Or(Get(cmd.flags, "-b"), Get(cmd.flags, "--branch"))
                         ELSE Or(Get(cmd.flags, "-c"), Get(cmd.flags, "--create"))
           branch_name == IF ~Truthy(flag_value) /\ cmd.args # <<>>
                          THEN cmd.args[1] ELSE flag_value
           viaGit == /\ result'.op = "execute"
                     /\ cmd.command_type = "git"
                     /\ (isCheckout \/ isSwitch)
                     /\ Truthy(branch_name)
           target == IF direct THEN result'.args[1] ELSE branch_name
           from == state.head
       IN  (direct \/ viaGit)
              => IF target \in DOMAIN state.branches
                 THEN /\ ~result'.res.success
                      /\ state' = state
                 ELSE /\ result'.res.success
                      /\ state'.head = target
                      /\ DOMAIN state'.branches = DOMAIN state.branches \cup {target}
                      /\ \A b \in DOMAIN state.branches : state'.branches[b] = state.branches[b]
                      /\ state'.branches[target].commit_sha = state.branches[from].commit_sha
                      /\ state'.branches[target].commit_sha = state'.branches[from].commit_sha
                      /\ state' = [state EXCEPT !.branches = state'.branches, !.head = target]]_vars

\* checkout with the create flag has made "main" anew from another head
\* branch, after the first main was deleted
MainRecreatedFromFeature ==
    /\ result.op = "checkout"
    /\ result.args = <<"main", TRUE>>
    /\ result.res.success
    /\ state.head = "main"
    /\ "feature" \in DOMAIN state.branches

\* C23 (as the specification states it): merge(branch) fails and changes
\* nothing when branch is not a local branch; otherwise, whatever the
\* no-fast-forward flag and whether or not the two tips are equal, it adds
\* exactly one commit whose parent is the head branch's previous tip, moves
\* the head branch's pointer to it and leaves every other local branch
\* pointer unchanged.
MergeAddsOneCommitOnHead ==
    [][result'.op = "merge"
          => LET branch == result'.args[1]
                 sha == result'.args[3]
                 previous == state.branches[state.head].commit_sha
             IN  IF branch \notin DOMAIN state.branches
                 THEN ~result'.res.success /\ state' = state
                 ELSE /\ result'.res.success
                      /\ Cardinality(DOMAIN state'.commits) = Cardinality(DOMAIN state.commits) + 1
                      /\ \A c \in DOMAIN state.commits : state'.commits[c] = state.commits[c]
                      /\ state'.commits[sha].parent_sha = previous
                      /\ state'.head = state.head
                      /\ state'.branches = [state.branches EXCEPT ![state.head].commit_sha = sha]]_vars

----------------------------------------------------------------------------
(* Properties of status, log and import *)

\* C24 (as the specification states it): status reports ahead = 1 exactly
\* when the head branch has an upstream that is in the remote-tracking map
\* with a commit pointer other than the head branch's tip, and ahead = 0
\* otherwise; behind is always 0; so after a commit on a branch that has
\* been pushed with set-upstream ahead is 1, and after a further push of
\* the branch to that remote it is 0.
StatusAheadFollowsTips ==
    /\ [](LET current_branch == state.branches[state.head]
              upstream == current_branch.upstream
              differs == /\ upstream # NoUpstream
                         /\ upstream \in DOMAIN state.remote_branches
                         /\ state.remote_branches[upstream].commit_sha
                               # current_branch.commit_sha
          IN  /\ status(state).ahead = (IF differs THEN 1 ELSE 0)
              /\ status(state).behind = 0)
    /\ [][LET upstream == state.branches[state.head].upstream
              committed == /\ \/ result'.op = "commit"
                              \/ /\ result'.op = "execute"
                                 /\ result'.args[1].command_type = "git"
                                 /\ result'.args[1].command = "commit"
                           /\ result'.res.success
              pushed == /\ result'.op = "push"
                        /\ result'.res.success
                        /\ result'.args[2] \in {None, state.head}
                        /\ upstream = <<result'.args[1], state.head>>
          IN  /\ (committed /\ upstream \in DOMAIN state.remote_branches)
                    => status(state').ahead = 1
              /\ pushed => status(state').ahead = 0]_vars

\* C25: get_log(count), called directly or by `git log`, returns (so its
\* walk ends) and lists the commits from the head branch's tip along the
\* parent ids, in order: as many as count, or fewer exactly when the walk came
\* to a commit with no parent or with a parent id that is not in the commit
\* map; it changes no state.
LogListsParentChain ==
    [][LET cmd == result'.args[1]
           direct == result'.op = "get_log"
           viaGit == /\ result'.op = "execute"
                     /\ cmd.command_type = "git"
                     /\ cmd.command = "log"
           n == Get(cmd.flags, "-n")
           count == IF direct THEN result'.args[1]
                    ELSE IF Truthy(n) /\ IsInt(n) THEN ParseInt(n) ELSE 10
           oneline == IF direct THEN result'.args[2] ELSE "--oneline" \in DOMAIN cmd.flags
           output == result'.res.output
           listed == IF oneline
                     THEN [i \in 1..Len(output) |-> output[i][1]]
                     ELSE [i \in 1..(Len(output) \div 6) |-> output[6 * (i - 1) + 1][2]]
           last == state.commits[listed[Len(listed)]]
       IN  (direct \/ viaGit)
              => /\ result'.res.success
                 /\ state' = state
                 /\ ~oneline => Len(output) = 6 * Len(listed)
                 /\ Len(listed) <= count
                 /\ count >= 1 => /\ Len(listed) >= 1
                                  /\ listed[1] = state.branches[state.head].commit_sha
                 /\ \A i \in 1..(Len(listed) - 1) :
                        listed[i + 1] = state.commits[listed[i]].parent_sha
                 /\ (count >= 1 /\ Len(listed) < count)
                       => (last.parent_sha = None \/ last.parent_sha \notin DOMAIN state.commits)]_vars

\* get_log(2) has listed two commits of a chain of three, without changing
\* the state
LogCutShortByCount ==
    /\ result.op = "get_log"
    /\ result.args[1] = 2
    /\ Len(result.res.output) \in {2, 12}
    /\ LET tip == state.commits[state.branches[state.head].commit_sha]
       IN  /\ tip.parent_sha # None
           /\ state.commits[tip.parent_sha].parent_sha # None
           /\ state.commits[tip.parent_sha].parent_sha # state.branches[state.head].commit_sha
           /\ tip.parent_sha # state.branches[state.head].commit_sha

\* C26: import_state(data) replaces the repository state: afterwards the
\* commit map, the local branch map, head, the staged list and the
\* working-tree list are those of data (empty, and head "main", for what data
\* leaves out), and no remote-tracking branch and no pull request remains and
\* the next PR number is 1.
ImportReplacesState ==
    [][result'.op = "import_state"
          => LET data == result'.args[1]
                 commits == DataGet(data, "commits", <<>>)
                 branches == DataGet(data, "branches", <<>>)
                 staged == DataGet(data, "staged_changes", <<>>)
             IN  /\ DOMAIN state'.commits = DOMAIN commits
                 /\ \A sha \in DOMAIN commits :
                        /\ state'.commits[sha].message = commits[sha].message
                        /\ state'.commits[sha].parent_sha = commits[sha].parent_sha
                        /\ state'.commits[sha].files_changed = commits[sha].files_changed
                 /\ DOMAIN state'.branches = DOMAIN branches
                 /\ \A name \in DOMAIN branches :
                        /\ state'.branches[name].commit_sha = branches[name].commit_sha
                        /\ state'.branches[name].upstream = branches[name].upstream
                 /\ state'.head = DataGet(data, "head", "main")
                 /\ Len(state'.staged_changes) = Len(staged)
                 /\ \A i \in 1..Len(staged) :
                        /\ state'.staged_changes[i].filename = staged[i].filename
                        /\ state'.staged_changes[i].change_type = staged[i].change_type
                 /\ state'.working_changes = DataGet(data, "working_changes", <<>>)
                 /\ DOMAIN state'.remote_branches = {}
                 /\ DOMAIN state'.pull_requests = {}
                 /\ state'.next_pr_number = 1]_vars

\* a snapshot exported from a repository whose main had been pushed with
\* set-upstream has been imported: origin/main is gone and main still names
\* it as upstream
ImportDroppedPushedBranch ==
    /\ result.op = "import_state"
    /\ result.args[1].branches["main"].upstream = <<"origin", "main">>
    /\ DOMAIN state.remote_branches = {}
    /\ state.branches["main"].upstream = <<"origin", "main">>

----------------------------------------------------------------------------
(* Properties of reviews *)

\* C27 (as the specification states it): after a successful
\* add_review(n, r, s, c), whatever request_review and add_review calls came
\* before, every entry of reviewer r in the review list of pull request n has
\* status s and comment c, and the list is one entry longer only if r had no
\* entry before; request_review appends one pending entry per listed reviewer.
ReviewsKeyedByReviewer ==
    [][LET n == result'.args[1]
           r == result'.args[2]
           before == state.pull_requests[n].reviews
           after == state'.pull_requests[n].reviews
           had == \E i \in 1..Len(before) : before[i].reviewer = r
       IN  /\ (result'.op = "add_review" /\ result'.res.success)
                 => /\ \A i \in 1..Len(after) :
                           after[i].reviewer = r
                              => after[i].status = result'.args[3] /\ after[i].comment = ""
                    /\ Len(after) = Len(before) + (IF had THEN 0 ELSE 1)
           /\ (result'.op = "request_review" /\ result'.res.success)
                 => after = Append(before, [reviewer |-> r, status |-> "pending",
                                            comment |-> ""])]_vars

----------------------------------------------------------------------------
(* Properties of the executor's dispatch *)

\* C28: the executor rejects, with success=false and no change of the
\* repository, in shapes that differ by their message: a command type other
\* than internal, git and gh gets "Unknown command type"; a git command of
\* the catalog that has no handler (init and reset) gets "not yet
\* implemented in simulation"; a git command outside the catalog gets "is not
\* a git command"; a gh command other than pr gets "is not supported" and an
\* unknown pr subcommand gets "is not a valid subcommand".
ExecutorRejectsInShapes ==
    [][result'.op = "execute"
          => LET cmd == result'.args[1]
                 handled == {"status", "add", "commit", "branch", "checkout", "switch", "merge",
                             "log", "push", "pull", "fetch", "diff", "remote"}
                 rejected(text) == /\ ~result'.res.success
                                   /\ result'.res.message[1] = text
                                   /\ state' = state
             IN  /\ GIT_COMMANDS \ handled = {"init", "reset"}
                 /\ cmd.command_type \notin {"internal", "git", "gh"}
                       => /\ rejected("Unknown command type")
                          /\ result'.res.message[2] = cmd.command_type
                 /\ (cmd.command_type = "git" /\ cmd.command \in GIT_COMMANDS \ handled)
                       => rejected("git: not yet implemented in simulation")
                 /\ (cmd.command_type = "git" /\ cmd.command \notin GIT_COMMANDS)
                       => rejected("git: is not a git command")
                 /\ (cmd.command_type = "gh" /\ cmd.command # "pr")
                       => rejected("gh: is not supported. Only 'gh pr' commands are available.")
                 /\ (/\ cmd.command_type = "gh"
                     /\ cmd.command = "pr"
                     /\ cmd.subcommand \notin {"create", "list", "merge", "close", "view"})
                       => rejected("gh pr: is not a valid subcommand")]_vars

\* `git reset` has been rejected on a repository with a staged file
ResetRejectedWithStagedFile ==
    /\ result.op = "execute"
    /\ result.args[1].command = "reset"
    /\ ~result.res.success
    /\ state.staged_changes # <<>>

----------------------------------------------------------------------------
(* Properties of the lesson engine's steps *)

\* C29: on a step that is not a command step the verdict of validate_command
\* depends on the step type alone: on an explanation step every input gives
\* success with advance=true and an empty message, on a free-practice step
\* every input gives advance=false; validate_command never moves the engine
\* off a free-practice step, which is left by advance_step (or by
\* start_lesson beginning a lesson anew).
VerdictFollowsStepType ==
    [][HasCurrentStep(engine)
          => LET step == CurrentStep(engine)
                 validated == result'.op = "validate_command"
             IN  /\ (validated /\ step.step_type = "explanation")
                       => result'.res = ValidationResult(TRUE, <<>>, <<>>, TRUE)
                 /\ (validated /\ step.step_type = "free_practice")
                       => /\ ~result'.res.advance
                          /\ result'.res.success
                 /\ (/\ step.step_type = "free_practice"
                     /\ \/ engine'.current_lesson # engine.current_lesson
                        \/ engine'.current_step_index # engine.current_step_index)
                       => result'.op \in {"advance_step", "start_lesson"}]_vars

\* the command of a later step has been typed twice on the free-practice
\* step that opens the seeded lesson, and the engine is still on that step
PractisedWithoutAdvance ==
    /\ result.op = "validate_command"
    /\ result.args[1] = GitStatus
    /\ ~result.res.advance
    /\ engine.current_lesson = "seeded"
    /\ engine.current_step_index = 0
    /\ engine.attempt_count = 2

\* C30: advance_step on an active lesson adds one to the step index and sets
\* the attempt counter to 0; when the new index is a step of the lesson it
\* adds that step's setup-change filenames to the working-tree list and
\* changes nothing else of the repository, and when the steps are exhausted
\* it adds the lesson id to the completed set and leaves the engine idle (no
\* current lesson, index 0) and the repository as it was; advance_step with
\* no active lesson changes nothing.
AdvanceMovesOneStep ==
    [][result'.op = "advance_step"
          => IF engine.current_lesson = None
             THEN engine' = engine /\ state' = state
             ELSE LET lesson_steps == LESSONS[engine.current_lesson].steps
                      index == engine.current_step_index + 1
                      setup == lesson_steps[index + 1].setup_changes
                      before == state.working_changes
                      after == state'.working_changes
                  IN  IF index < Len(lesson_steps)
                      THEN /\ engine' = [engine EXCEPT !.current_step_index = index,
                                                       !.attempt_count = 0]
                           /\ state' = [state EXCEPT !.working_changes = after]
                           /\ SubSeq(after, 1, Len(before)) = before
                           /\ {after[i] : i \in 1..Len(after)}
                                 = {before[i] : i \in 1..Len(before)}
                                      \cup {setup[i] : i \in 1..Len(setup)}
                           /\ Len(after) = Cardinality({after[i] : i \in 1..Len(after)})
                                              + (Len(before)
                                                 - Cardinality({before[i] : i \in 1..Len(before)}))
                      ELSE /\ engine' = [current_lesson |-> None,
                                         current_step_index |-> 0,
                                         attempt_count |-> 0,
                                         completed_lessons |->
                                            engine.completed_lessons
                                               \cup {engine.current_lesson}]
                           /\ state' = state]_vars

\* advance_step has ended a lesson while a file was pending in the working tree:
\* the engine is idle again and the lesson is in the completed set
AdvancedPastLastStep ==
    /\ result.op = "advance_step"
    /\ engine.current_lesson = None
    /\ engine.current_step_index = 0
    /\ engine.attempt_count = 0
    /\ "fixbug" \in engine.completed_lessons
    /\ state.working_changes # <<>>

----------------------------------------------------------------------------
(* Properties of starting a lesson, of feedback and of hints *)

FeedbackEscalatesWithAttempts ==
    [][LET validated == result'.op = "validate_command" /\ HasCurrentStep(engine)
           step == CurrentStep(engine)
           k == engine'.attempt_count
           hints == result'.res.hints
       IN  /\ validated => /\ k = engine.attempt_count + 1
                           /\ engine' = [engine EXCEPT !.attempt_count = k]
           /\ (result'.op \in {"start_lesson", "advance_step"} /\ result'.res.success)
                 => k = 0
           /\ (validated /\ step.step_type = "command" /\ ~result'.res.success)
                 => /\ ~result'.res.advance
                    /\ InSeq(<<"Type 'hint' for more help.">>, hints) <=> k >= 3
                    /\ (\E i \in 1..Len(hints) : hints[i][1] = "Try:")
                          <=> (k >= 5 /\ step.expected_commands # <<>>)
                    /\ \A i \in 1..Len(hints) :
                           hints[i][1] = "Try:" => hints[i] = <<"Try:", step.expected_commands[1]>>
                    /\ engine'.current_step_index = engine.current_step_index]_vars

\* the fifth attempt in a row on the step that accepts
\* `git commit -m 'Fix bug'` has failed and the answer shows the command
FifthFailureRevealsCommand ==
    /\ result.op = "validate_command"
    /\ ~result.res.success
    /\ engine.current_lesson = "fixbug"
    /\ engine.attempt_count = 5
    /\ InSeq(<<"Try:", GitCommitFixBug>>, result.res.hints)

\* C33 (as the specification states it): on a command step with a non-empty
\* hint list get_hint returns the first hint at attempt count 0 or 1 and
\* entry min(a, length), counted from one, at attempt count a, so the entry
\* it returns never moves back as the attempt count grows.
HintFollowsAttemptCount ==
    [][(/\ result'.op = "get_hint"
        /\ HasCurrentStep(engine)
        /\ CurrentStep(engine).step_type = "command"
        /\ CurrentStep(engine).failure_hints # <<>>)
          => LET hints == CurrentStep(engine).failure_hints
                 a == engine.attempt_count
                 entry == IF a <= 1 THEN 1 ELSE IF a < Len(hints) THEN a ELSE Len(hints)
             IN  result'.res.output = <<hints[entry]>>]_vars

\* the tokens of a git/gh command line that flag parsing runs over
FlagTokens(tokens) ==
    IF Lower(tokens[1]) = "gh" /\ tokens[2] = "pr" /\ Len(tokens) > 2
    THEN SubSeq(tokens, 4, Len(tokens))
    ELSE SubSeq(tokens, 3, Len(tokens))

\* a token that starts with a dash and is longer than the dash alone
IsFlagToken(token) == StartsWithDash(token) /\ token # "-"

\* position i of the tokens holds a flag without "="
IsPlainFlagAt(r, i) == IsFlagToken(r[i]) /\ ~HasEq(r[i])

\* position i holds the value of the flag before it
IsValueAt(r, i) == i > 1 /\ IsPlainFlagAt(r, i - 1) /\ ~StartsWithDash(r[i])

\* position i holds a positional argument
IsPositionalAt(r, i) == ~IsFlagToken(r[i]) /\ ~IsValueAt(r, i)

\* the value the flag at position i takes
ValueAt(r, i) == IF i < Len(r) /\ ~StartsWithDash(r[i + 1]) THEN r[i + 1] ELSE None

RECURSIVE PositionalsFrom(_, _)
PositionalsFrom(r, i) ==
    IF i > Len(r) THEN <<>>
    ELSE IF IsPositionalAt(r, i) THEN <<r[i]>> \o PositionalsFrom(r, i + 1)
    ELSE PositionalsFrom(r, i + 1)

\* the command line just run was a git/gh command that the lexer parsed
ParsedGitOrGh ==
    /\ result.op = "execute_command"
    /\ ~IsParseError(parse(result.args[1]))
    /\ parse(result.args[1]).command_type \in {"git", "gh"}

ExecutionIgnoresVerdict ==
    [][(/\ result'.op = "run_iteration"
        /\ HasCurrentStep(engine)
        /\ CurrentStep(engine).step_type = "command"
        /\ result'.args[1] \in USER_INPUTS \ {<<>>})
          => result'.res.executed]_vars

\* C36 (as the specification states it): on a repository with the local
\* branch feature, `git merge --no-ff feature` and `git merge feature
\* --no-ff`, run through the lexer and the executor, give the same result:
\* each succeeds and leaves the head branch at the new merge commit.
MergeFlagPositionIrrelevant ==
    [][(/\ result'.op = "execute_command"
        /\ result'.args[1] \in {<<"git", "merge", "--no-ff", "feature">>,
                                <<"git", "merge", "feature", "--no-ff">>}
        /\ "feature" \in DOMAIN state.branches)
          => LET sha == result'.args[2]
                 flag_first == execute_command(state, <<"git", "merge", "--no-ff", "feature">>, sha)
                 flag_last == execute_command(state, <<"git", "merge", "feature", "--no-ff">>, sha)
             IN  /\ flag_first = flag_last
                 /\ result'.res.success
                 /\ state'.branches[state.head].commit_sha = sha
                 /\ state' = merge(state, "feature", TRUE, sha).st]_vars

RECURSIVE ParentChainEnds(_, _, _)
\* following parent ids from sha reaches a commit without a parent, over
\* commits of the map only and without meeting one of visited again
ParentChainEnds(st, sha, visited) ==
    /\ sha \in DOMAIN st.commits
    /\ sha \notin visited
    /\ \/ st.commits[sha].parent_sha = None
       \/ ParentChainEnds(st, st.commits[sha].parent_sha, visited \cup {sha})

\* C37 (as the specification states it): under commit, merge, branch,
\* checkout, push and pull request operations a commit once created is never
\* removed or altered, and following parent ids from any local or
\* remote-tracking branch tip never meets a commit twice and ends at a commit
\* without a parent.
HistoryOnlyGrows ==
    /\ [](/\ \A b \in DOMAIN state.branches :
                ParentChainEnds(state, state.branches[b].commit_sha, {})
          /\ \A rb \in DOMAIN state.remote_branches :
                ParentChainEnds(state, state.remote_branches[rb].commit_sha, {}))
    /\ [][\A c \in DOMAIN state.commits :
              c \in DOMAIN state'.commits /\ state'.commits[c] = state.commits[c]]_vars

\* C38 (as the specification states it): whenever a lesson is active (the
\* current lesson is set) a current step exists, that is, 0 <= step index <
\* number of steps of the current lesson, whatever lesson was started, one
\* with an empty step list included.
ActiveLessonHasStep ==
    engine.current_lesson # None
        => /\ 0 <= engine.current_step_index
           /\ engine.current_step_index < Len(LESSONS[engine.current_lesson].steps)

\* the snapshot fields of the state: commits, local branches, head, staged
\* entries and working-tree list
SnapshotFields(st) ==
    [commits |-> st.commits, branches |-> st.branches, head |-> st.head,
     staged_changes |-> st.staged_changes, working_changes |-> st.working_changes]

\* C39 (as the specification states it): importing what export_state gives
\* for the state yields a state with the same commits, local branches (names,
\* tips and upstreams), head, staged entries and working-tree list, in which
\* every branch upstream still names an existing remote-tracking branch.
ExportImportRoundTrip ==
    [][(result'.op = "import_state" /\ result'.args[1] = export_state(state))
          => /\ SnapshotFields(state') = SnapshotFields(state)
             /\ \A b \in DOMAIN state'.branches :
                    state'.branches[b].upstream # NoUpstream
                        => state'.branches[b].upstream \in DOMAIN state'.remote_branches]_vars

RECURSIVE AdvanceTimes(_, _, _)
\* the engine and repository after k further advance_step calls
AdvanceTimes(eng, st, k) ==
    IF k = 0
    THEN [eng |-> eng, st |-> st]
    ELSE LET before == AdvanceTimes(eng, st, k - 1)
         IN  advance_step(before.eng, before.st)

\* C40: a started lesson with n >= 1 steps is completed by exactly n
\* advance_step calls: after k < n calls the lesson is still current with
\* step index k, after the n-th call its id is in the completed set and the
\* engine is idle, and a further call changes nothing.  Between the calls
\* validate_command and get_hint leave the lesson and the index alone, each
\* advance_step call on an active lesson raises the index by one or
\* completes the lesson, and the completed set never loses an id.
LessonCompletesAfterAllSteps ==
    /\ []((result.op = "start_lesson" /\ result.res.success
            /\ Len(LESSONS[engine.current_lesson].steps) >= 1)
          => LET n == Len(LESSONS[engine.current_lesson].steps)
                 done == AdvanceTimes(engine, state, n)
             IN  /\ engine.current_step_index = 0
                 /\ \A k \in 0..(n - 1) :
                        LET e == AdvanceTimes(engine, state, k).eng
                        IN  /\ e.current_lesson = engine.current_lesson
                            /\ e.current_step_index = k
                            /\ e.completed_lessons = engine.completed_lessons
                 /\ done.eng.current_lesson = None
                 /\ done.eng.completed_lessons
                        = engine.completed_lessons \cup {engine.current_lesson}
                 /\ AdvanceTimes(engine, state, n + 1) = done)
    /\ [][/\ engine.completed_lessons \subseteq engine'.completed_lessons
          /\ result'.op \in {"validate_command", "get_hint"}
                => /\ engine'.current_lesson = engine.current_lesson
                   /\ engine'.current_step_index = engine.current_step_index
                   /\ engine'.completed_lessons = engine.completed_lessons
          /\ (result'.op = "advance_step" /\ engine.current_lesson = None)
                => engine' = engine /\ state' = state
          /\ (result'.op = "advance_step" /\ engine.current_lesson # None)
                => IF engine.current_step_index + 1 < Len(LESSONS[engine.current_lesson].steps)
                   THEN /\ engine'.current_lesson = engine.current_lesson
                        /\ engine'.current_step_index = engine.current_step_index + 1
                        /\ engine'.completed_lessons = engine.completed_lessons
                   ELSE /\ engine'.current_lesson = None
                        /\ engine.current_lesson \in engine'.completed_lessons]_vars

\* the four-step lesson has been completed and advance_step has been called
\* once more on the idle engine
AdvancedAfterCompletion ==
    /\ result.op = "advance_step"
    /\ ~result.res.success
    /\ engine.current_lesson = None
    /\ "basics" \in engine.completed_lessons

====
